---- MODULE Spec2Model ----
(***************************************************************************)
(* A model of gigot: the Git object reader (package objects), its pack    *)
(* reader and the Rabin delta encoder (package gitdelta).                 *)
(*                                                                         *)
(* Bytes are the integers 0..255, byte strings are sequences of them, and *)
(* Go's 0-based half-open slices s[a:b] are written Slice(s, a, b).       *)
(***************************************************************************)
EXTENDS Integers, Sequences, FiniteSets, TLC

VARIABLES
    dpc,        \* gitdelta: "idle" | "start" | "diffed" | "patched"
    data1,      \* gitdelta: Diff's first argument, a buffer (see Buf)
    data2,      \* gitdelta: Diff's second argument, a byte string
    dpatch,     \* gitdelta: the delta returned by Diff
    dsel,       \* gitdelta: which fingerprint hashRabin is (see hashRabin)
    di,         \* gitdelta: the loop index i of Diff
    lastmatch,  \* gitdelta: the index in data2 of the last byte matched
    dout,       \* gitdelta: the result of applying dpatch to data1
    world,      \* objects: what the two files were made from (see Worlds)
    packf,      \* objects: the pack file
    idxf,       \* objects: the index file
    pk,         \* objects: the PackReader
    pc,         \* objects: "idle" | "new" | "failed" | "ready" | "extractAt"
                \*          | "return" | "overflow"
    call,       \* objects: the call in progress: its hash and the offset
                \*          extractAt is entered with
    stack,      \* objects: the frames of extractAt waiting for their base
    rv,         \* objects: what the last extractAt returned
    ret         \* objects: what the last call on the reader returned

dvars == <<dpc, data1, data2, dpatch, dsel, di, lastmatch, dout>>

pvars == <<world, packf, idxf, pk, pc, call, stack, rv, ret>>

vars == <<dpc, data1, data2, dpatch, dsel, di, lastmatch, dout,
          world, packf, idxf, pk, pc, call, stack, rv, ret>>

(***************************************************************************)
(* Byte strings.                                                           *)
(***************************************************************************)

\* s[a:b] of Go, 0-based, a <= b <= len(s).
Slice(s, a, b) == [k \in 1..(b - a) |-> s[a + k]]

\* s[i] of Go, 0-based.
At(s, i) == s[i + 1]

Min2(a, b) == IF a < b THEN a ELSE b

MinOf(S) == CHOOSE x \in S : \A y \in S : x <= y

RECURSIVE SumOf(_)
SumOf(S) == IF S = {} THEN 0 ELSE LET x == CHOOSE y \in S : TRUE IN x + SumOf(S \ {x})

\* The sum of the second components of a set of pairs.
RECURSIVE SumPairs(_)
SumPairs(S) ==
    IF S = {} THEN 0 ELSE LET x == CHOOSE y \in S : TRUE IN x[2] + SumPairs(S \ {x})

\* byte(v >> (8*k)) of Go, for 0 <= v < 2^31.
ByteOf(v, k) == IF k >= 4 THEN 0 ELSE (v \div (256 ^ k)) % 256

\* A buffer stands for the byte string made of `pad` zero bytes followed by
\* `body`: large inputs of Diff are kept in this form.
Buf(pad, body) == [pad |-> pad, body |-> body]

BufLen(d) == d.pad + Len(d.body)

\* d[i], 0-based.
BufAt(d, i) == IF i < d.pad THEN 0 ELSE d.body[i - d.pad + 1]

\* d[a:b]
BufSlice(d, a, b) == [k \in 1..(b - a) |-> BufAt(d, a + k - 1)]

(***************************************************************************)
(* Package gitdelta: the delta encoder.                                    *)
(***************************************************************************)

\* The chunk width of the Rabin index.
W == 16

\* The sum of the bytes s[a..b], each multiplied by its position when
\* weighted.
RECURSIVE rangeSum(_, _, _, _)
rangeSum(s, a, b, weighted) ==
    IF a > b THEN 0
    ELSE IF a = b THEN (IF weighted THEN a * s[a] ELSE s[a])
    ELSE rangeSum(s, a, (a + b) \div 2, weighted)
         + rangeSum(s, ((a + b) \div 2) + 1, b, weighted)

SeqSum(s) == rangeSum(s, 1, Len(s), FALSE)

\* The fingerprint of a chunk.  Diff compares the bytes of every candidate,
\* so its result may depend on which chunks collide but never on the
\* polynomial: sel = 0 is a fingerprint without collisions, sel = 1 one that
\* collides on all chunks with the same byte sum.
hashRabin(sel, s) == IF sel = 0 THEN s ELSE <<SeqSum(s) % 256>>

\* hashes[p] of Diff, for hashes = hashChunks(input): the loop visits the
\* chunks at (nbHash-1)*W, ..., 2*W, W (not the one at 0) and later writes
\* overwrite earlier ones, so the entry kept is the smallest index.
\* The result is -1 when the map has no entry for p.
hashChunks(sel, input, p) ==
    LET nbHash == BufLen(input) \div W
        hit    == {k \in 1..(nbHash - 1) :
                      hashRabin(sel, BufSlice(input, k * W, k * W + W)) = p}
    IN  IF hit = {} THEN -1 ELSE W * MinOf(hit)

\* binary.PutUvarint: little-endian groups of 7 bits, bit 7 set on all but
\* the last.
RECURSIVE PutUvarint(_)
PutUvarint(x) ==
    IF x >= 128 THEN <<128 + (x % 128)>> \o PutUvarint(x \div 128) ELSE <<x>>

RECURSIVE appendInlineData(_, _)
appendInlineData(patch, data) ==
    IF Len(data) > 127
    THEN appendInlineData(patch \o <<127>> \o Slice(data, 0, 127),
                          Slice(data, 127, Len(data)))
    ELSE IF Len(data) > 0 THEN patch \o <<Len(data)>> \o data
    ELSE patch

\* A uint32 is kept as <<high 16 bits, low 16 bits>>, so that its
\* arithmetic is exact whatever the value.
U32(x) == <<x \div 65536, x % 65536>>

\* byte(v >> (8*k)) of a uint32 v, k in 0..3.
U32Byte(v, k) == IF k < 2 THEN ByteOf(v[2], k) ELSE ByteOf(v[1], k - 2)

\* The first loop of appendRefData: one copy of 1<<16 bytes per round.
RECURSIVE appendRefLong(_, _, _)
appendRefLong(patch, off, length) ==
    IF length[1] > 1 \/ (length[1] = 1 /\ length[2] > 0)
    THEN LET op == IF off[1] = 0 /\ off[2] < 256 THEN <<129, U32Byte(off, 0)>>
                   ELSE IF off[1] = 0
                        THEN <<131, U32Byte(off, 0), U32Byte(off, 1)>>
                   ELSE IF off[1] < 256
                        THEN <<135, U32Byte(off, 0), U32Byte(off, 1), U32Byte(off, 2)>>
                   ELSE <<143, U32Byte(off, 0), U32Byte(off, 1), U32Byte(off, 2),
                               U32Byte(off, 3)>>
         IN  appendRefLong(patch \o op, <<(off[1] + 1) % 65536, off[2]>>,
                           <<length[1] - 1, length[2]>>)
    ELSE [patch |-> patch, off |-> off, length |-> length]

\* The flag bit appendRefData sets in the opcode for offset byte k: 1 for
\* byte 0 and 2 for each of the bytes 1, 2 and 3.
refOffsetFlag(k) == IF k = 0 THEN 1 ELSE 2

\* The flag bit appendRefData sets for length byte k: 0x10, 0x20.
refLengthFlag(k) == IF k = 0 THEN 16 ELSE 32

\* appendRefData(patch, off, length), off and length being uint32.
appendRefData(patch, off0, length0) ==
    LET r      == appendRefLong(patch, off0, length0)
        off    == r.off
        length == r.length
        offK   == {k \in 0..3 : U32Byte(off, k) # 0}
        lenK   == {k \in 0..1 : U32Byte(length, k) # 0}
        op     == SumOf({128} \cup {refOffsetFlag(k) : k \in offK}
                              \cup {refLengthFlag(k) : k \in lenK})
        offB   == [j \in 1..Cardinality(offK) |->
                      U32Byte(off, CHOOSE k \in offK :
                                      Cardinality({m \in offK : m < k}) = j - 1)]
        lenB   == [j \in 1..Cardinality(lenK) |->
                      U32Byte(length, CHOOSE k \in lenK :
                                         Cardinality({m \in lenK : m < k}) = j - 1)]
    IN  r.patch \o <<op>> \o offB \o lenB

\* The left extension of a match: refi and testi move back while the bytes
\* before them agree and testi stays after the previous match.
RECURSIVE extendLeft(_, _, _, _, _)
extendLeft(d1, d2, refi, testi, lm) ==
    IF refi > 0 /\ testi > lm + 1 /\ BufAt(d1, refi - 1) = At(d2, testi - 1)
    THEN extendLeft(d1, d2, refi - 1, testi - 1, lm)
    ELSE <<refi, testi>>

\* The right extension of a match.
RECURSIVE extendRight(_, _, _, _)
extendRight(d1, d2, refj, testj) ==
    IF refj < BufLen(d1) /\ testj < Len(d2) /\ BufAt(d1, refj) = At(d2, testj)
    THEN extendRight(d1, d2, refj + 1, testj + 1)
    ELSE <<refj, testj>>

\* hashes[p] at the top of a round of Diff's loop with i >= W, where the
\* rolling hash p is the fingerprint of data2[i-W:i].
diffRef(sel, d1, d2, i) == hashChunks(sel, d1, hashRabin(sel, Slice(d2, i - W, i)))

\* Whether the round of Diff's loop at i finds a match.
diffMatches(sel, d1, d2, i) ==
    LET refi == diffRef(sel, d1, d2, i)
    IN  refi >= 0 /\ BufSlice(d1, refi, refi + W) = Slice(d2, i - W, i)

\* The match of the round at i, extended: data1[refi:refj] = data2[testi:testj].
diffMatch(sel, d1, d2, i, lm) ==
    LET l == extendLeft(d1, d2, diffRef(sel, d1, d2, i), i - W, lm)
        r == extendRight(d1, d2, l[1] + i - l[2], i)
    IN  [refi |-> l[1], testi |-> l[2], refj |-> r[1], testj |-> r[2]]

\* len(skipped) after a match ending at testj.
diffSkipped(d2, i, testj) ==
    IF testj + W < Len(d2) THEN testj + W - i ELSE Len(d2) - i

(***************************************************************************)
(* Package gitdelta: the delta patch interpreter.                          *)
(***************************************************************************)

Bit(v, k) == (v \div (2 ^ k)) % 2 = 1

\* A size varint read at 0-based position pos of delta: <<value, next
\* position>>, or <<-1, pos>> when the delta ends inside it.
RECURSIVE readSize(_, _, _, _)
readSize(delta, pos, shift, acc) ==
    IF pos >= Len(delta) THEN <<-1, pos>>
    ELSE LET b == At(delta, pos)
             v == acc + (b % 128) * (2 ^ shift)
         IN  IF b >= 128 THEN readSize(delta, pos + 1, shift + 7, v)
             ELSE <<v, pos + 1>>

\* The opcode stream from position pos on, out being the output so far.
RECURSIVE patchLoop(_, _, _, _, _)
patchLoop(base, delta, pos, out, dst) ==
    IF pos >= Len(delta)
    THEN IF Len(out) = dst THEN [err |-> "", data |-> out]
         ELSE [err |-> "SizeMismatch", data |-> <<>>]
    ELSE LET op == At(delta, pos) IN
         IF op = 0 THEN [err |-> "BadDelta", data |-> <<>>]
         ELSE IF op < 128
         THEN IF pos + 1 + op > Len(delta) THEN [err |-> "BadDelta", data |-> <<>>]
              ELSE patchLoop(base, delta, pos + 1 + op,
                             out \o Slice(delta, pos + 1, pos + 1 + op), dst)
         ELSE LET selK   == {k \in 0..6 : Bit(op, k)}
                  arg(k) == At(delta, pos + 1 + Cardinality({m \in selK : m < k}))
                  next   == pos + 1 + Cardinality(selK)
              IN  IF next > Len(delta) THEN [err |-> "BadDelta", data |-> <<>>]
                  ELSE LET offset == SumPairs({<<k, arg(k) * (256 ^ k)>> :
                                                 k \in {m \in selK : m <= 3}})
                           len0   == SumPairs({<<k, arg(k) * (256 ^ (k - 4))>> :
                                                 k \in {m \in selK : m >= 4}})
                           length == IF len0 = 0 THEN 65536 ELSE len0
                       IN  IF offset + length > BufLen(base)
                           THEN [err |-> "BadDelta", data |-> <<>>]
                           ELSE patchLoop(base, delta, next,
                                          out \o BufSlice(base, offset, offset + length),
                                          dst)

\* Patch(base, delta): the patched bytes, or the error.
Patch(base, delta) ==
    LET s1 == readSize(delta, 0, 0, 0)
        s2 == readSize(delta, s1[2], 0, 0)
    IN  IF s1[1] < 0 \/ s2[1] < 0 \/ s1[1] # BufLen(base)
        THEN [err |-> "BadDeltaHeader", data |-> <<>>]
        ELSE patchLoop(base, delta, s2[2], <<>>, s2[1])

(***************************************************************************)
(* Package objects: files.  A file is read with ReadAt only.               *)
(***************************************************************************)

\* The big-endian value of a byte string (binary.BigEndian.Uint32/Uint64).
\* The inputs of the model keep the values below 2^31.
RECURSIVE BigEndian(_)
BigEndian(b) ==
    IF b = <<>> THEN 0 ELSE BigEndian(SubSeq(b, 1, Len(b) - 1)) * 256 + b[Len(b)]

\* The n bytes of v, most significant first.
PutBigEndian(v, n) == [k \in 1..n |-> ByteOf(v, n - k)]

\* int64(binary.BigEndian.Uint64(b)) for the values below 2^31; the others,
\* which lie beyond the end of every file read here, are all kept as 2^31-1.
Int64(b) ==
    IF \E k \in 1..4 : b[k] # 0 THEN 2147483647
    ELSE IF b[5] >= 128 THEN 2147483647
    ELSE BigEndian(SubSeq(b, 5, 8))

\* The size of a Hash.
HashSize == 20

\* bytes.Compare(a, b) for two strings of the same length: -1, 0 or 1.
Compare(a, b) ==
    LET diff == {k \in 1..Len(a) : a[k] # b[k]}
    IN  IF diff = {} THEN 0
        ELSE IF a[MinOf(diff)] < b[MinOf(diff)] THEN -1 ELSE 1

\* r.ReadAt(buf, off) on a file of bytes `file`, buf having n zero bytes:
\* the bytes read and the error of io.SectionReader.ReadAt ("" for nil).
ReadAt(file, n, off) ==
    IF off < 0 \/ off >= Len(file)
    THEN [buf |-> [k \in 1..n |-> 0], n |-> 0, err |-> "EOF"]
    ELSE LET m == Min2(n, Len(file) - off)
         IN  [buf |-> [k \in 1..n |-> IF k <= m THEN file[off + k] ELSE 0],
              n   |-> m,
              err |-> IF m < n THEN "EOF" ELSE ""]

idxHeaderSize == 4 + 4 + 256 * 4

\* An index file is kept as its tables; its bytes are those of the tables
\* laid out as in a version 2 index: magic, version, 256 fanout entries,
\* the hashes, the CRC32 sums, the 32-bit offsets (each a uint32), the
\* 64-bit offsets and the two checksums, cut at `size` bytes.
IdxObjects(f) == Len(f.hashes)

IdxFullSize(f) ==
    idxHeaderSize + 28 * IdxObjects(f) + 8 * Len(f.off64) + Len(f.sums)

\* The byte at position pos of the index file.
IdxByte(f, pos) ==
    LET n  == IdxObjects(f)
        h0 == idxHeaderSize
        c0 == h0 + 20 * n
        o0 == c0 + 4 * n
        x0 == o0 + 4 * n
        s0 == x0 + 8 * Len(f.off64)
    IN  IF pos < 4 THEN f.magic[pos + 1]
        ELSE IF pos < 8 THEN PutBigEndian(f.version, 4)[pos - 3]
        ELSE IF pos < h0
             THEN PutBigEndian(f.fanout[(pos - 8) \div 4], 4)[((pos - 8) % 4) + 1]
        ELSE IF pos < c0 THEN f.hashes[((pos - h0) \div 20) + 1][((pos - h0) % 20) + 1]
        ELSE IF pos < o0 THEN 0
        ELSE IF pos < x0
             THEN U32Byte(f.off32[((pos - o0) \div 4) + 1], 3 - ((pos - o0) % 4))
        ELSE IF pos < s0
             THEN PutBigEndian(f.off64[((pos - x0) \div 8) + 1], 8)[((pos - x0) % 8) + 1]
        ELSE f.sums[pos - s0 + 1]

\* idx.ReadAt(buf, off), buf having n zero bytes.
IdxReadAt(f, n, off) ==
    IF off < 0 \/ off >= f.size
    THEN [buf |-> [k \in 1..n |-> 0], n |-> 0, err |-> "EOF"]
    ELSE LET m == Min2(n, f.size - off)
         IN  [buf |-> [k \in 1..n |-> IF k <= m THEN IdxByte(f, off + k - 1) ELSE 0],
              n   |-> m,
              err |-> IF m < n THEN "EOF" ELSE ""]

(***************************************************************************)
(* Package objects: the pack reader.                                       *)
(***************************************************************************)

MagicPack == <<80, 65, 67, 75>>     \* 'P', 'A', 'C', 'K'
MagicIdx  == <<255, 116, 79, 99>>   \* '\xff', 't', 'O', 'c'

\* checkPackMagic(pack): the version and the error.
checkPackMagic(pack) ==
    LET r       == ReadAt(pack, 12, 0)
        version == BigEndian(SubSeq(r.buf, 5, 8))
        err1    == IF SubSeq(r.buf, 1, 4) # MagicPack THEN "errBadPackMagic" ELSE ""
        err2    == IF version # 2 THEN "errUnsupportedPackVersion" ELSE err1
    IN  IF r.err # "" THEN [version |-> 0, err |-> r.err]
        ELSE [version |-> version, err |-> err2]

\* pk.checkIdxMagic(idx): the fanout table it stores in pk, and the error.
checkIdxMagic(fanout0, idx) ==
    LET r == IdxReadAt(idx, 8, 0)
    IN  IF idx.size < idxHeaderSize THEN [idxFanout |-> fanout0, err |-> "EOF"]
        ELSE IF SubSeq(r.buf, 1, 4) # MagicIdx
        THEN [idxFanout |-> fanout0, err |-> "errBadIdxMagic"]
        ELSE [idxFanout |->
                 [i \in 0..255 |-> BigEndian(IdxReadAt(idx, 4, 8 + 4 * i).buf)],
              err |-> ""]

ZeroFanout == [i \in 0..255 |-> 0]

\* The state of an io.SectionReader besides the file under it: the offset
\* at which its next Read starts, 0 as io.NewSectionReader returns it.
NewSectionReader == [off |-> 0]

\* The state of a section reader after r.Read(buf), len(buf) = n.
sectionAfterRead(r, n) == [r EXCEPT !.off = @ + n]

\* The state of a section reader after r.ReadAt(buf, off), len(buf) = n:
\* ReadAt reads at off and leaves the offset of Read alone.
sectionAfterReadAt(r, n) == r

\* NewPackReader(pack, idx): the reader (pk.open is false for nil) and the
\* error.  pk.pack and pk.idx are the section readers of the two files.
NewPackReader(pack, idx) ==
    LET m == checkPackMagic(pack)
        x == checkIdxMagic(ZeroFanout, idx)
    IN  IF m.err # ""
        THEN [pk |-> [open |-> FALSE, version |-> 0, idxFanout |-> ZeroFanout,
                     pack |-> NewSectionReader, idx |-> NewSectionReader],
              err |-> m.err]
        ELSE IF x.err # ""
        THEN [pk |-> [open |-> FALSE, version |-> 0, idxFanout |-> ZeroFanout,
                     pack |-> NewSectionReader, idx |-> NewSectionReader],
              err |-> x.err]
        ELSE [pk |-> [open |-> TRUE, version |-> m.version, idxFanout |-> x.idxFanout,
                     pack |-> sectionAfterReadAt(NewSectionReader, 12),
                     idx |-> sectionAfterReadAt(NewSectionReader, idxHeaderSize)],
              err |-> ""]

\* The binary search of findObject: <<min, max>> on leaving the loop, or
\* <<-1, -1>> when a read fails.
RECURSIVE binarySearch(_, _, _, _)
binarySearch(idx, hash, min, max) ==
    IF min < max
    THEN LET med == (min + max) \div 2
             r   == IdxReadAt(idx, HashSize, idxHeaderSize + med * 20)
             cmp == Compare(r.buf, hash)
         IN  IF r.err # "" THEN <<-1, -1>>
             ELSE IF cmp < 0 THEN binarySearch(idx, hash, med + 1, max)
             ELSE IF cmp > 0 THEN binarySearch(idx, hash, min, med - 1)
             ELSE <<med, med>>
    ELSE <<min, max>>

\* A first index that leaves the hashes of the range of hash[0] out: the
\* entry of hash[0] itself.
fanoutMinOwnEntry(fanout, hash) == fanout[hash[1]]

\* The first index searched for a hash: idxFanout[hash[0]-1], 0 for hash[0] = 0.
fanoutMin(fanout, hash) == IF hash[1] > 0 THEN fanout[hash[1] - 1] ELSE 0

\* The index into the 64-bit offset table that findObject uses for the
\* object at position min of the index whose 32-bit entry is off32.
off64Index(min, off32) == min

\* pk.findObject(hash): the offset and the error.
findObject(rd, idx, hash) ==
    LET min0     == fanoutMin(rd.idxFanout, hash)
        max0     == rd.idxFanout[hash[1]]
        rmin     == IdxReadAt(idx, HashSize, idxHeaderSize + min0 * 20)
        rmax     == IdxReadAt(idx, HashSize, idxHeaderSize + max0 * 20)
        s        == binarySearch(idx, hash, min0, max0)
        min      == s[1]
        objcount == rd.idxFanout[255]
        r32      == IdxReadAt(idx, 4, idxHeaderSize + 24 * objcount + 4 * min)
        off32    == <<BigEndian(SubSeq(r32.buf, 1, 2)), BigEndian(SubSeq(r32.buf, 3, 4))>>
        r64      == IdxReadAt(idx, 8, idxHeaderSize + 28 * objcount
                                          + 8 * off64Index(min, off32))
    IN  IF rmin.err # "" THEN [off |-> 0, err |-> rmin.err]
        ELSE IF rmax.err # "" THEN [off |-> 0, err |-> rmax.err]
        ELSE IF s[1] < 0 THEN [off |-> 0, err |-> "EOF"]
        ELSE IF s[1] > s[2] THEN [off |-> 0, err |-> "errNotFoundInPack"]
        ELSE IF r32.err # "" THEN [off |-> 0, err |-> r32.err]
        ELSE IF off32[1] < 32768 THEN [off |-> off32[1] * 65536 + off32[2], err |-> ""]
        ELSE [off |-> Int64(r64.buf), err |-> r64.err]

\* pk.Objects(): the hashes and the error.
Objects(rd, idx) ==
    LET count == rd.idxFanout[255]
        r     == IdxReadAt(idx, 20 * count, idxHeaderSize)
    IN  IF r.err # "" THEN [hashes |-> <<>>, err |-> r.err]
        ELSE [hashes |-> [i \in 1..count |-> SubSeq(r.buf, 20 * (i - 1) + 1, 20 * i)],
              err |-> ""]

\* binary.Uvarint(buf): the value and the number of bytes read; n = 0 when
\* buf ends inside the value, n < 0 when the value overflows 64 bits.
RECURSIVE uvarintFrom(_, _, _, _)
uvarintFrom(buf, i, x, s) ==
    IF i >= Len(buf) THEN [v |-> 0, n |-> 0]
    ELSE LET b == At(buf, i) IN
         IF b < 128
         THEN IF i > 9 \/ (i = 9 /\ b > 1) THEN [v |-> 0, n |-> 0 - (i + 1)]
              ELSE [v |-> x + b * (2 ^ s), n |-> i + 1]
         ELSE uvarintFrom(buf, i + 1, x + (b % 128) * (2 ^ s), s + 7)

Uvarint(buf) == uvarintFrom(buf, 0, 0, 0)

\* The loop of readVaroffset without the increment between two bytes.
RECURSIVE varoffsetNoCarry(_, _, _, _)
varoffsetNoCarry(buf, n, i, u) ==
    IF i >= n THEN [v |-> u, n |-> Len(buf), err |-> "ErrUnexpectedEOF"]
    ELSE LET b  == At(buf, i)
             u1 == u * 128 + (b % 128)
         IN  IF b < 128 THEN [v |-> u1, n |-> i + 1, err |-> ""]
             ELSE varoffsetNoCarry(buf, n, i + 1, u1)

\* The loop of readVaroffset over buf[:n].
RECURSIVE varoffsetFrom(_, _, _, _)
varoffsetFrom(buf, n, i, u) ==
    IF i >= n THEN [v |-> u, n |-> Len(buf), err |-> "ErrUnexpectedEOF"]
    ELSE LET b  == At(buf, i)
             u1 == (IF i > 0 THEN u + 1 ELSE u) * 128 + (b % 128)
         IN  IF b < 128 THEN [v |-> u1, n |-> i + 1, err |-> ""]
             ELSE varoffsetFrom(buf, n, i + 1, u1)

\* readVaroffset(r, offset): the value, the number of bytes and the error.
readVaroffset(file, offset) ==
    LET r == ReadAt(file, 16, offset)
    IN  varoffsetFrom(r.buf, r.n, 0, 0)

\* io.ReadFull(zr, s) on a zlib stream that yields the bytes z.data and
\* then ends (z.end = "eof") or fails (z.end = "corrupt"), len(s) = size:
\* the buffer, the count and the error.
ReadFull(z, size) ==
    LET n == Min2(size, Len(z.data))
    IN  [buf |-> [k \in 1..size |-> IF k <= n THEN z.data[k] ELSE 0],
         n   |-> n,
         err |-> IF n = size THEN ""
                 ELSE IF z.end = "corrupt" THEN "zlib: corrupt stream"
                 ELSE IF n = 0 THEN "EOF" ELSE "ErrUnexpectedEOF"]

\* readCompressed(r, offset, s), len(s) = size.  A pack file is its bytes
\* and, for each offset where a zlib stream starts, what the stream inflates
\* to; zlib.NewReader fails where no stream with a valid header starts.
readCompressed(pack, offset, size) ==
    IF offset \in DOMAIN pack.streams /\ pack.streams[offset].hdr
    THEN ReadFull(pack.streams[offset], size)
    ELSE [buf |-> [k \in 1..size |-> 0], n |-> 0, err |-> "zlib: invalid header"]

pkCommit == 1
pkTree == 2
pkBlob == 3
pkTag == 4
pkOfsDelta == 6
pkRefDelta == 7

\* An entry header with eight bits taken from each continuation byte.
entryHeaderShift8(pack, off) ==
    LET r == ReadAt(pack.bytes, 16, off)
        u == Uvarint(r.buf)
    IN  [objsize |-> (u.v \div 256) * 16 + (u.v % 16),
         objtype |-> (u.v \div 16) % 8,
         n       |-> u.n]

\* The size and the type that extractAt takes from the entry header.
entryHeader(pack, off) ==
    LET r == ReadAt(pack.bytes, 16, off)
        u == Uvarint(r.buf)
    IN  [objsize |-> (u.v \div 128) * 16 + (u.v % 16),
         objtype |-> (u.v \div 16) % 8,
         n       |-> u.n]

(***************************************************************************)
(* Package objects: the object model.                                      *)
(***************************************************************************)

BLOB == 0
TREE == 1
COMMIT == 2

strBlob   == <<98, 108, 111, 98>>
strTree   == <<116, 114, 101, 101>>
strCommit == <<99, 111, 109, 109, 105, 116>>
strTag    == <<116, 97, 103>>

\* The decimal digits of n >= 0 (fmt's %d).
RECURSIVE Itoa(_)
Itoa(n) == IF n < 10 THEN <<48 + n>> ELSE Itoa(n \div 10) \o <<48 + (n % 10)>>

\* The octal digits of n >= 0 (fmt's %o).
RECURSIVE Otoa(_)
Otoa(n) == IF n < 8 THEN <<48 + n>> ELSE Otoa(n \div 8) \o <<48 + (n % 8)>>

\* bytes.IndexByte(s, c): the 0-based index of the first c in s, or -1.
IndexByte(s, c) ==
    LET at == {k \in 1..Len(s) : s[k] = c}
    IN  IF at = {} THEN -1 ELSE MinOf(at) - 1

\* A stand-in for crypto/sha1: a 20-byte digest of a byte string.  Distinct
\* strings may collide, equal strings never differ.
weightedSum(s) == rangeSum(s, 1, Len(s), TRUE) % 251

NewHash(s) ==
    [k \in 1..HashSize |->
        IF k = 1 THEN SeqSum(s) % 4 ELSE IF k = 2 THEN weightedSum(s) ELSE 0]

ZeroHash == [k \in 1..HashSize |-> 0]

\* An Object: kind is "blob", "tree", "commit", or "nil" for no object.
\* The fields of the other kinds keep their zero values.
ZeroTime == [zero |-> TRUE, unix |-> 0, offset |-> 0]

NilObject ==
    [kind |-> "nil", Hash |-> ZeroHash, Data |-> <<>>, Entries |-> <<>>,
     Tree |-> ZeroHash, Parents |-> <<>>, Author |-> <<>>, AuthorTime |-> ZeroTime,
     Committer |-> <<>>, CommitterTime |-> ZeroTime, Message |-> <<>>]

\* An os.FileMode is its permission bits and the two type bits osMode sets.
FileMode(perm, dir, symlink) == [perm |-> perm, dir |-> dir, symlink |-> symlink]

ModeRegular == 32768
ModeDir == 16384
ModeSymlink == 8192

\* A gitMode that leaves out the bit of regular files.
gitModeTypeBits(mode) ==
    mode.perm + (IF mode.dir THEN ModeDir ELSE 0)
              + (IF mode.symlink THEN ModeSymlink ELSE 0)

\* gitMode(mode): the Git mode of an os.FileMode.
gitMode(mode) ==
    mode.perm + (IF mode.dir THEN ModeDir ELSE 0)
              + (IF mode.symlink THEN ModeSymlink ELSE 0)
              + (IF ~mode.dir /\ ~mode.symlink THEN ModeRegular ELSE 0)

\* osMode(mode): the os.FileMode of a Git mode (a uint16).
osMode(mode) ==
    IF (mode \div ModeRegular) % 2 = 1 THEN FileMode(mode % 512, FALSE, FALSE)
    ELSE FileMode(mode % 512, (mode \div ModeDir) % 2 = 1,
                  (mode \div ModeSymlink) % 2 = 1)

\* strconv.ParseUint(s, 8, 16): the value and the error.
RECURSIVE parseOctalFrom(_, _, _)
parseOctalFrom(s, k, v) ==
    IF k > Len(s) THEN [v |-> v, err |-> ""]
    ELSE IF s[k] < 48 \/ s[k] > 55 THEN [v |-> 0, err |-> "strconv: invalid syntax"]
    ELSE IF v * 8 + (s[k] - 48) > 65535
         THEN [v |-> 65535, err |-> "strconv: value out of range"]
    ELSE parseOctalFrom(s, k + 1, v * 8 + (s[k] - 48))

ParseUint8x16(s) ==
    IF s = <<>> THEN [v |-> 0, err |-> "strconv: invalid syntax"]
    ELSE parseOctalFrom(s, 1, 0)

\* parseTree(s): the tree and the error, or a panic (slice bounds out of
\* range) when an entry has no space before its NUL.
RECURSIVE parseTreeFrom(_, _)
parseTreeFrom(s, entries) ==
    IF Len(s) = 0 THEN [t |-> entries, err |-> "", panic |-> FALSE]
    ELSE LET sp  == IndexByte(s, 32)
             nul == IndexByte(s, 0)
         IN  IF nul < sp \/ nul + 20 >= Len(s)
             THEN [t |-> entries, err |-> "errBadTreeData", panic |-> FALSE]
             ELSE IF sp < 0 THEN [t |-> entries, err |-> "", panic |-> TRUE]
             ELSE LET m == ParseUint8x16(Slice(s, 0, sp))
                      e == [Name |-> Slice(s, sp + 1, nul),
                            Mode |-> osMode(m.v),
                            Hash |-> Slice(s, nul + 1, nul + 21)]
                  IN  IF m.err # "" THEN [t |-> entries, err |-> m.err, panic |-> FALSE]
                      ELSE parseTreeFrom(Slice(s, nul + 21, Len(s)), Append(entries, e))

parseTree(s) == parseTreeFrom(s, <<>>)

\* The bytes Tree.WriteTo writes before the header: one "%o %s\x00%s" per
\* entry.
RECURSIVE treeBody(_, _)
treeBody(entries, k) ==
    IF k > Len(entries) THEN <<>>
    ELSE Otoa(gitMode(entries[k].Mode)) \o <<32>> \o entries[k].Name \o <<0>>
         \o entries[k].Hash \o treeBody(entries, k + 1)

strTreeSp      == strTree \o <<32>>
strParent      == <<112, 97, 114, 101, 110, 116>>
strAuthor      == <<97, 117, 116, 104, 111, 114>>
strCommitter   == <<99, 111, 109, 109, 105, 116, 116, 101, 114>>
\* "-62135596800", the Unix time of the zero time.Time.
strZeroUnix    == <<45, 54, 50, 49, 51, 53, 53, 57, 54, 56, 48, 48>>

\* The value of a hexadecimal digit, or -1 (fromHexChar).
fromHexChar(c) ==
    IF c >= 48 /\ c <= 57 THEN c - 48
    ELSE IF c >= 97 /\ c <= 102 THEN c - 97 + 10
    ELSE IF c >= 65 /\ c <= 70 THEN c - 65 + 10
    ELSE -1

\* The loop of hex.Decode(dst, src) from byte i of dst on.
RECURSIVE hexDecodeFrom(_, _, _)
hexDecodeFrom(dst, src, i) ==
    IF i >= Len(src) \div 2 THEN [dst |-> dst, n |-> Len(src) \div 2, err |-> "", panic |-> FALSE]
    ELSE LET a == fromHexChar(At(src, 2 * i))
             b == fromHexChar(At(src, 2 * i + 1))
         IN  IF a < 0 \/ b < 0
             THEN [dst |-> dst, n |-> 0, err |-> "hex: invalid byte", panic |-> FALSE]
             ELSE IF i >= Len(dst)
             THEN [dst |-> dst, n |-> 0, err |-> "", panic |-> TRUE]
             ELSE hexDecodeFrom([dst EXCEPT ![i + 1] = a * 16 + b], src, i + 1)

\* hex.Decode(dst, src): dst as written, the count, the error, or a panic
\* (index out of range) when src has more digits than dst has room for.
hexDecode(dst, src) ==
    IF Len(src) % 2 = 1 THEN [dst |-> dst, n |-> 0, err |-> "hex: odd length", panic |-> FALSE]
    ELSE hexDecodeFrom(dst, src, 0)

\* hex.EncodeToString(h): Hash.String().
hexDigit(v) == IF v < 10 THEN 48 + v ELSE 97 + v - 10

hexEncode(h) ==
    [k \in 1..(2 * Len(h)) |->
        IF k % 2 = 1 THEN hexDigit(h[(k + 1) \div 2] \div 16)
        ELSE hexDigit(h[k \div 2] % 16)]

\* strconv.ParseInt(s, 10, 64) and strconv.Atoi(s): an optional sign, then
\* one or more decimal digits.  The inputs of the model stay below 2^31.
RECURSIVE parseDigits(_, _, _)
parseDigits(s, k, v) ==
    IF k > Len(s) THEN [v |-> v, err |-> ""]
    ELSE IF s[k] < 48 \/ s[k] > 57 THEN [v |-> 0, err |-> "strconv: invalid syntax"]
    ELSE parseDigits(s, k + 1, v * 10 + (s[k] - 48))

ParseInt(s) ==
    LET signed == s # <<>> /\ s[1] \in {43, 45}
        digits == IF signed THEN Tail(s) ELSE s
        r      == parseDigits(digits, 1, 0)
    IN  IF digits = <<>> THEN [v |-> 0, err |-> "strconv: invalid syntax"]
        ELSE IF r.err # "" THEN r
        ELSE [v |-> IF signed /\ s[1] = 45 THEN 0 - r.v ELSE r.v, err |-> ""]

\* bytes.LastIndexAny(s, " "): the 0-based index of the last space, or -1.
LastIndexSpace(s) ==
    LET at == {k \in 1..Len(s) : s[k] = 32}
    IN  IF at = {} THEN -1 ELSE (CHOOSE k \in at : \A j \in at : j <= k) - 1

\* parseAuthor(line): the name, the time and the error.
parseAuthor(line) ==
    LET sp1   == LastIndexSpace(line)
        sp2   == LastIndexSpace(Slice(line, 0, sp1))
        z     == Slice(line, sp2, Len(line))
        unix  == ParseInt(Slice(z, 1, sp1 - sp2))
        z2    == Slice(z, sp1 - sp2, Len(z))
        zhour == ParseInt(Slice(z2, 1, 4))
        zmin  == ParseInt(Slice(z2, 4, 6))
        bad(e) == [name |-> <<>>, when |-> ZeroTime, err |-> e]
    IN  IF sp1 < 0 THEN bad("errMalformedCommitLine")
        ELSE IF sp2 < 0 THEN bad("errMalformedCommitLine")
        ELSE IF sp1 + 6 # Len(line) THEN bad("errMalformedCommitLine")
        ELSE IF unix.err # "" THEN bad(unix.err)
        ELSE IF zhour.err # "" THEN bad(zhour.err)
        ELSE IF zmin.err # "" THEN bad(zmin.err)
        ELSE [name |-> Slice(line, 0, sp2),
              when |-> [zero |-> FALSE, unix |-> unix.v,
                        offset |-> zhour.v * 3600 + zmin.v * 60],
              err  |-> ""]

\* parseCommit(s) from the header line at the start of s on: the commit, the
\* error, or a panic (unrecognized commit header, or hex.Decode's).
RECURSIVE parseCommitFrom(_, _)
parseCommitFrom(s, c) ==
    IF Len(s) = 0 THEN [c |-> c, err |-> "", panic |-> FALSE]
    ELSE LET i    == IndexByte(s, 10)
             line == Slice(s, 0, i)
             rest == Slice(s, i + 1, Len(s))
             sp   == IndexByte(line, 32)
             word == Slice(line, 0, sp)
             arg  == Slice(line, sp + 1, Len(line))
             bad  == [c |-> c, err |-> "errMalformedCommitLine", panic |-> FALSE]
         IN  IF i < 0 THEN bad
             ELSE IF Len(line) = 0
             THEN [c |-> [c EXCEPT !.Message = rest], err |-> "", panic |-> FALSE]
             ELSE IF sp < 0 THEN bad
             ELSE IF word = strTree
             THEN LET d == hexDecode(c.Tree, arg)
                      c1 == [c EXCEPT !.Tree = d.dst]
                  IN  IF d.panic THEN [c |-> c1, err |-> "", panic |-> TRUE]
                      ELSE IF d.err # "" \/ d.n # HashSize
                      THEN [c |-> c1, err |-> "errMalformedCommitLine", panic |-> FALSE]
                      ELSE parseCommitFrom(rest, c1)
             ELSE IF word = strParent
             THEN LET d == hexDecode(ZeroHash, arg)
                  IN  IF d.panic THEN [c |-> c, err |-> "", panic |-> TRUE]
                      ELSE IF d.err # "" \/ d.n # HashSize THEN bad
                      ELSE parseCommitFrom(rest, [c EXCEPT !.Parents = Append(@, d.dst)])
             ELSE IF word = strAuthor
             THEN LET a == parseAuthor(arg)
                  IN  parseCommitFrom(rest, [c EXCEPT !.Author = a.name,
                                                      !.AuthorTime = a.when])
             ELSE IF word = strCommitter
             THEN LET a == parseAuthor(arg)
                  IN  parseCommitFrom(rest, [c EXCEPT !.Committer = a.name,
                                                      !.CommitterTime = a.when])
             ELSE [c |-> c, err |-> "", panic |-> TRUE]

parseCommit(s) == parseCommitFrom(s, [NilObject EXCEPT !.kind = "commit"])

\* t.Unix() in decimal.
timeUnix(t) ==
    IF t.zero THEN strZeroUnix
    ELSE IF t.unix < 0 THEN <<45>> \o Itoa(0 - t.unix) ELSE Itoa(t.unix)

\* n in decimal, at least two digits.
Pad2(n) == IF n < 10 THEN <<48, n + 48>> ELSE Itoa(n)

\* t.Format("-0700"): the sign, the hours and the minutes of the zone offset.
timeZone(t) ==
    LET off  == IF t.zero THEN 0 ELSE t.offset
        zone == IF off < 0 THEN (0 - off) \div 60 ELSE off \div 60
    IN  <<IF off <= -60 THEN 45 ELSE 43>> \o Pad2(zone \div 60) \o Pad2(zone % 60)

RECURSIVE parentLines(_, _)
parentLines(ps, k) ==
    IF k > Len(ps) THEN <<>>
    ELSE strParent \o <<32>> \o hexEncode(ps[k]) \o <<10>> \o parentLines(ps, k + 1)

\* The bytes Commit.WriteTo writes after the header.
commitBody(c) ==
    strTreeSp \o hexEncode(c.Tree) \o <<10>>
    \o parentLines(c.Parents, 1)
    \o strAuthor \o <<32>> \o c.Author \o <<32>> \o timeUnix(c.AuthorTime)
    \o <<32>> \o timeZone(c.AuthorTime) \o <<10>>
    \o strCommitter \o <<32>> \o c.Committer \o <<32>> \o timeUnix(c.CommitterTime)
    \o <<32>> \o timeZone(c.CommitterTime) \o <<10>>
    \o <<10>> \o c.Message

\* o.WriteTo(w): the bytes written.
WriteTo(o) ==
    IF o.kind = "blob" THEN strBlob \o <<32>> \o Itoa(Len(o.Data)) \o <<0>> \o o.Data
    ELSE IF o.kind = "tree"
    THEN LET buf == treeBody(o.Entries, 1)
         IN  strTree \o <<32>> \o Itoa(Len(buf)) \o <<0>> \o buf
    ELSE LET buf == commitBody(o)
         IN  strCommit \o <<32>> \o Itoa(Len(buf)) \o <<0>> \o buf

\* rehash(o)
rehash(o) == NewHash(WriteTo(o))

\* readObject(t, data): the object and the error, or a panic.
readObject(t, data) ==
    IF t = BLOB
    THEN LET o == [NilObject EXCEPT !.kind = "blob", !.Data = data]
         IN  [obj |-> [o EXCEPT !.Hash = rehash(o)], err |-> "", panic |-> FALSE]
    ELSE IF t = TREE
    THEN LET r == parseTree(data)
             o == [NilObject EXCEPT !.kind = "tree", !.Entries = r.t]
         IN  IF r.panic THEN [obj |-> NilObject, err |-> "", panic |-> TRUE]
             ELSE [obj |-> [o EXCEPT !.Hash = rehash(o)], err |-> r.err, panic |-> FALSE]
    ELSE IF t = COMMIT
    THEN LET r == parseCommit(data)
         IN  IF r.panic THEN [obj |-> NilObject, err |-> "", panic |-> TRUE]
             ELSE [obj |-> [r.c EXCEPT !.Hash = rehash(r.c)], err |-> r.err,
                   panic |-> FALSE]
    ELSE [obj |-> NilObject, err |-> "", panic |-> TRUE]

\* matchType(t, s)
matchType(t, s) ==
    IF t = BLOB THEN s = strBlob
    ELSE IF t = TREE THEN s = strTree
    ELSE IF t = COMMIT THEN s = strCommit
    ELSE FALSE

\* strconv.ParseUint(s, 10, 64): digits only, at least one.  The inputs of
\* the model stay below 2^31.
ParseUint10(s) ==
    IF s = <<>> THEN [v |-> 0, err |-> "strconv: invalid syntax"]
    ELSE parseDigits(s, 1, 0)

\* ioutil.ReadAll(zr) on a zlib stream that yields the bytes z.data and then
\* ends (z.end = "eof") or fails (z.end = "corrupt"): the bytes and the error.
ReadAll(z) ==
    [s |-> z.data, err |-> IF z.end = "eof" THEN "" ELSE "zlib: corrupt stream"]

\* The type readLoose takes from the first byte; t keeps its zero value
\* (BLOB) for other bytes.
looseType(c) ==
    IF c = 98 THEN BLOB ELSE IF c = 99 THEN COMMIT ELSE IF c = 116 THEN TREE ELSE BLOB

\* The error readLoose returns once strconv.ParseUint has given the size sz
\* and its nil error to the variable err, s being what follows the header.
readLooseSize(sz, s) ==
    IF Len(s) # sz.v THEN "errObjectSizeMismatch" ELSE sz.err

\* readLoose(r) on a file that holds the zlib stream z: the type, the bytes
\* and the error, or a panic (slice bounds out of range) when the first 32
\* bytes have no space.
readLoose(z) ==
    LET rd  == ReadAll(z)
        s   == rd.s
        hdr == IF Len(s) > 32 THEN Slice(s, 0, 32) ELSE s
        sp  == IndexByte(hdr, 32)
        nul == IndexByte(hdr, 0)
        t   == looseType(s[1])
        sz  == ParseUint10(Slice(hdr, sp + 1, nul))
        rest == Slice(s, nul + 1, Len(s))
        out(typ, data, err) == [t |-> typ, s |-> data, err |-> err, panic |-> FALSE]
    IN  IF ~z.hdr THEN out(BLOB, <<>>, "zlib: invalid header")
        ELSE IF Len(hdr) < 4 THEN out(BLOB, s, "errCorruptedObjectHeader")
        ELSE IF sp < 0 THEN [t |-> t, s |-> s, err |-> "", panic |-> TRUE]
        ELSE IF ~matchType(t, Slice(hdr, 0, sp)) THEN out(t, s, "errInvalidType")
        ELSE IF nul < 0 THEN out(t, s, "errCorruptedObjectHeader")
        ELSE IF sz.err # "" THEN out(t, s, "errCorruptedObjectHeader")
        ELSE out(t, rest, readLooseSize(sz, rest))

\* ParseLoose(r): the object and the error, or a panic.
ParseLoose(z) ==
    LET l == readLoose(z)
    IN  IF l.panic THEN [obj |-> NilObject, err |-> "", panic |-> TRUE]
        ELSE IF l.err # "" THEN [obj |-> NilObject, err |-> l.err, panic |-> FALSE]
        ELSE readObject(l.t, l.s)

(***************************************************************************)
(* Pack and index files, as Git writes them.                               *)
(***************************************************************************)

\* The header of a pack entry: the type in bits 6..4 of the first byte, the
\* size in its low 4 bits and in 7 bits of each following byte.
RECURSIVE sizeTail(_)
sizeTail(v) == IF v >= 128 THEN <<128 + (v % 128)>> \o sizeTail(v \div 128) ELSE <<v>>

EntryHeader(type, size) ==
    IF size < 16 THEN <<16 * type + size>>
    ELSE <<128 + 16 * type + (size % 16)>> \o sizeTail(size \div 16)

\* The distance of an OFS_DELTA entry to its base.
RECURSIVE varoffsetHead(_, _)
varoffsetHead(d, bytes) ==
    IF d = 0 THEN bytes
    ELSE varoffsetHead((d - 1) \div 128, <<128 + ((d - 1) % 128)>> \o bytes)

Varoffset(d) == varoffsetHead(d \div 128, <<d % 128>>)

\* The name of a type of pack entry in the header of an object.
typeName(t) ==
    IF t = pkCommit THEN strCommit ELSE IF t = pkTree THEN strTree
    ELSE IF t = pkBlob THEN strBlob ELSE strTag

\* The id of an object: the digest of "<type> <size>\x00<payload>".
ObjectId(t, data) == NewHash(typeName(t) \o <<32>> \o Itoa(Len(data)) \o <<0>> \o data)

\* A zlib stream that inflates to data.
Deflated(data) == [hdr |-> TRUE, data |-> data, end |-> "eof"]

\* The entries of a pack are described by records:
\*   type    the type in the entry header
\*   size    the size in the entry header
\*   z       the zlib stream of the entry
\*   base    for a delta, the number of the entry it is a delta of (0: none)
\*   d       for an OFS_DELTA, the distance written when base = 0
\*   parent  for a REF_DELTA, the hash written when base = 0
\*   id      the hash under which the index lists the entry when it does
\*           not resolve to an object
BaseEntry(t, data) ==
    [type |-> t, size |-> Len(data), z |-> Deflated(data), base |-> 0, d |-> 0,
     parent |-> ZeroHash, id |-> ZeroHash]

OfsDelta(base, delta) ==
    [type |-> pkOfsDelta, size |-> Len(delta), z |-> Deflated(delta), base |-> base,
     d |-> 0, parent |-> ZeroHash, id |-> ZeroHash]

RefDelta(base, delta) ==
    [type |-> pkRefDelta, size |-> Len(delta), z |-> Deflated(delta), base |-> base,
     d |-> 0, parent |-> ZeroHash, id |-> ZeroHash]

\* The zlib stream of an entry inflates to as many bytes as its header says.
StreamSound(e) == e.z.hdr /\ e.size = Len(e.z.data)

\* What entry k of es resolves to: the type of the base its chain ends in
\* and the deltas of the chain applied in order from that base.
RECURSIVE Resolved(_, _)
Resolved(es, k) ==
    IF es[k].type \notin {pkOfsDelta, pkRefDelta}
    THEN [type |-> es[k].type, data |-> es[k].z.data,
          ok |-> es[k].type \in 1..4 /\ StreamSound(es[k])]
    ELSE IF es[k].base = 0 THEN [type |-> 0, data |-> <<>>, ok |-> FALSE]
    ELSE LET b == Resolved(es, es[k].base)
             r == Patch(Buf(0, b.data), es[k].z.data)
         IN  [type |-> b.type, data |-> r.data,
              ok |-> b.ok /\ StreamSound(es[k]) /\ r.err = ""]

EntryId(es, k) ==
    IF Resolved(es, k).ok THEN ObjectId(Resolved(es, k).type, Resolved(es, k).data)
    ELSE es[k].id

\* The bytes of entry k when it starts at offset off and offs[j] is the
\* offset of each entry j before it.
EntryBytes(es, k, off, offs) ==
    LET e == es[k]
    IN  EntryHeader(e.type, e.size)
        \o (IF e.type = pkOfsDelta
            THEN Varoffset(IF e.base = 0 THEN e.d ELSE off - offs[e.base])
            ELSE IF e.type = pkRefDelta
            THEN (IF e.base = 0 THEN e.parent ELSE EntryId(es, e.base))
            ELSE <<>>)
        \o (IF e.z.hdr THEN <<120, 156>> ELSE <<0, 0>>)

\* The offsets of the entries es[1..k], the first one after the 12 bytes of
\* the pack header.
RECURSIVE EntryOffsets(_, _)
EntryOffsets(es, k) ==
    IF k = 0 THEN <<>>
    ELSE IF k = 1 THEN <<12>>
    ELSE LET offs == EntryOffsets(es, k - 1)
         IN  Append(offs, offs[k - 1]
                          + Len(EntryBytes(es, k - 1, offs[k - 1], offs)))

RECURSIVE entriesBytes(_, _, _)
entriesBytes(es, k, offs) ==
    IF k > Len(es) THEN <<>>
    ELSE EntryBytes(es, k, offs[k], offs) \o entriesBytes(es, k + 1, offs)

\* The offset, after the entry header and the base reference, of the zlib
\* stream of entry k.
StreamOffset(es, k, offs) ==
    offs[k] + Len(EntryBytes(es, k, offs[k], offs)) - 2

PackChecksum == [k \in 1..HashSize |-> 17]

\* The pack file with the given magic and version and the entries es.
PackFile(magic, version, es) ==
    LET offs == EntryOffsets(es, Len(es))
    IN  [bytes   |-> magic \o PutBigEndian(version, 4) \o PutBigEndian(Len(es), 4)
                     \o entriesBytes(es, 1, offs) \o PackChecksum,
         streams |-> [o \in {StreamOffset(es, k, offs) : k \in 1..Len(es)} |->
                         es[CHOOSE k \in 1..Len(es) : StreamOffset(es, k, offs) = o].z]]

\* The hashes of a set in increasing order.
RECURSIVE SortHashes(_)
SortHashes(S) ==
    IF S = {} THEN <<>>
    ELSE LET m == CHOOSE x \in S : \A y \in S : Compare(x, y) <= 0
         IN  <<m>> \o SortHashes(S \ {m})

\* The index file with the given magic and version that lists, for each
\* hash h of the domain of the function off32, the 32-bit offset entry
\* off32[h]; off64 is its table of 64-bit offsets.
IndexFile(magic, version, off32, off64) ==
    LET hs == SortHashes(DOMAIN off32)
        f  == [magic  |-> magic,
               version |-> version,
               fanout |-> [i \in 0..255 |-> Cardinality({h \in DOMAIN off32 : h[1] <= i})],
               hashes |-> hs,
               off32  |-> [k \in 1..Len(hs) |-> off32[hs[k]]],
               off64  |-> off64,
               sums   |-> PackChecksum \o [k \in 1..HashSize |-> 0],
               size   |-> 0]
    IN  [f EXCEPT !.size = IdxFullSize(f)]

\* The index of the pack with entries es.
PackIndex(es) ==
    LET offs == EntryOffsets(es, Len(es))
        ids  == {EntryId(es, k) : k \in 1..Len(es)}
    IN  IndexFile(MagicIdx, 2,
                  [h \in ids |-> U32(offs[CHOOSE k \in 1..Len(es) : EntryId(es, k) = h])],
                  <<>>)

(***************************************************************************)
(* The files the pack reader is run on.                                    *)
(***************************************************************************)

\* A hash by its first two bytes.
HashOf(a, b) == [k \in 1..HashSize |-> IF k = 1 THEN a ELSE IF k = 2 THEN b ELSE 0]

\* A delta from a base of srcLen bytes to a target of tgtLen bytes.
DeltaOf(srcLen, tgtLen, ops) == PutUvarint(srcLen) \o PutUvarint(tgtLen) \o ops
Copy(off, n) == IF off = 0 THEN <<144, n>> ELSE <<145, off, n>>
Insert(s) == <<Len(s)>> \o s

\* "ab"
BlobAB == <<97, 98>>
\* "100644 a\x00<hash>40000 d\x00<hash>"
TreeFileDir ==
    <<49, 48, 48, 54, 52, 52, 32, 97, 0>> \o HashOf(1, 2)
    \o <<52, 48, 48, 48, 48, 32, 100, 0>> \o HashOf(1, 3)
\* "100755 x\x00<hash>"
TreeEntryExec == <<49, 48, 48, 55, 53, 53, 32, 120, 0>> \o HashOf(1, 4)
\* "120000 l\x00<hash>"
TreeLink == <<49, 50, 48, 48, 48, 48, 32, 108, 0>> \o HashOf(1, 5)
\* "tree <hex>\nauthor a 1 +0100\ncommitter c 2 -0200\n\nm"
CommitOne ==
    strTreeSp \o hexEncode(HashOf(1, 6)) \o <<10>>
    \o <<97, 117, 116, 104, 111, 114, 32, 97, 32, 49, 32, 43, 48, 49, 48, 48, 10>>
    \o <<99, 111, 109, 109, 105, 116, 116, 101, 114, 32, 99, 32, 50, 32, 45, 48,
         50, 48, 48, 10>>
    \o <<10, 109>>
\* "tag v"
TagV == <<116, 97, 103, 32, 118>>

\* Packs as Git writes them: bases of each type, and chains of deltas of
\* both kinds on them.
ChainEntries ==
    << BaseEntry(pkBlob, BlobAB),
       OfsDelta(1, DeltaOf(2, 3, Copy(0, 2) \o Insert(<<99>>))),
       OfsDelta(2, DeltaOf(3, 3, Insert(<<120>>) \o Copy(1, 2))),
       RefDelta(3, DeltaOf(3, 5, Copy(0, 3) \o Copy(0, 2))),
       RefDelta(1, DeltaOf(2, 1, Copy(1, 1))) >>

TypedEntries ==
    << BaseEntry(pkTree, TreeFileDir),
       OfsDelta(1, DeltaOf(Len(TreeFileDir), Len(TreeFileDir) + Len(TreeEntryExec),
                           Copy(0, Len(TreeFileDir)) \o Insert(TreeEntryExec))),
       BaseEntry(pkCommit, CommitOne),
       RefDelta(3, DeltaOf(Len(CommitOne), Len(CommitOne) + 1,
                           Copy(0, Len(CommitOne)) \o Insert(<<33>>))) >>

LinkEntries == << BaseEntry(pkBlob, BlobAB), BaseEntry(pkTree, TreeLink) >>

TagEntries ==
    << BaseEntry(pkTag, TagV),
       OfsDelta(1, DeltaOf(Len(TagV), Len(TagV) + 1, Copy(0, Len(TagV)) \o Insert(<<50>>))) >>

WellFormedEntries == {ChainEntries, TypedEntries, LinkEntries, TagEntries}

\* Packs as Git never writes them.
\* An OFS_DELTA entry with the distance d.
OfsDeltaAt(d, id) ==
    [OfsDelta(0, DeltaOf(2, 2, Copy(0, 2))) EXCEPT !.d = d, !.id = id]

\* A REF_DELTA entry with the base hash parent.
RefDeltaTo(parent, id) ==
    [RefDelta(0, DeltaOf(2, 2, Copy(0, 2))) EXCEPT !.parent = parent, !.id = id]

\* The offset of the second entry of a pack whose first entry is BlobAB.
SecondOffset == EntryOffsets(<<BaseEntry(pkBlob, BlobAB), BaseEntry(pkBlob, BlobAB)>>, 2)[2]

MalformedEntries ==
    { \* an OFS_DELTA at distance 0 of itself
      << BaseEntry(pkBlob, BlobAB), OfsDeltaAt(0, HashOf(9, 1)) >>,
      \* an OFS_DELTA whose base would be at offset 0, and before it
      << BaseEntry(pkBlob, BlobAB), OfsDeltaAt(SecondOffset, HashOf(9, 1)) >>,
      << BaseEntry(pkBlob, BlobAB), OfsDeltaAt(SecondOffset + 100, HashOf(9, 1)) >>,
      \* a REF_DELTA of itself
      << BaseEntry(pkBlob, BlobAB), RefDeltaTo(HashOf(9, 2), HashOf(9, 2)) >>,
      \* a REF_DELTA of an OFS_DELTA of it
      << RefDeltaTo(HashOf(9, 4), HashOf(9, 3)),
         [OfsDelta(1, DeltaOf(2, 2, Copy(0, 2))) EXCEPT !.id = HashOf(9, 4)] >>,
      \* a REF_DELTA of an object that is not in the pack
      << BaseEntry(pkBlob, BlobAB), RefDeltaTo(HashOf(2, 7), HashOf(9, 5)) >>,
      \* entries of the types 0 and 5
      << [BaseEntry(0, BlobAB) EXCEPT !.id = HashOf(9, 6)],
         [BaseEntry(5, BlobAB) EXCEPT !.id = HashOf(9, 7)] >>,
      \* a base whose zlib stream is cut short, one with no zlib header
      << [BaseEntry(pkBlob, BlobAB) EXCEPT !.size = 3, !.id = HashOf(9, 8)],
         [BaseEntry(pkBlob, BlobAB) EXCEPT !.z.hdr = FALSE, !.id = HashOf(9, 9)] >>,
      \* a delta that copies from beyond its base
      << BaseEntry(pkBlob, BlobAB),
         [OfsDelta(1, DeltaOf(2, 3, Copy(1, 2))) EXCEPT !.id = HashOf(9, 10)] >>,
      \* deltas whose zlib stream ends one byte before the size of the header
      << BaseEntry(pkBlob, BlobAB),
         [OfsDelta(1, DeltaOf(2, 3, Copy(0, 2) \o Insert(<<0>>)))
             EXCEPT !.z.data = SubSeq(@, 1, Len(@) - 1), !.id = HashOf(9, 11)],
         [RefDelta(1, DeltaOf(2, 3, Copy(0, 2) \o Insert(<<0>>)))
             EXCEPT !.z.data = SubSeq(@, 1, Len(@) - 1), !.id = HashOf(9, 12)] >> }

\* The hashes an index is made of, and the hashes looked up: four hashes
\* start with byte 0, none with byte 1.
IndexUniverse ==
    { HashOf(0, 1), HashOf(0, 2), HashOf(0, 3), HashOf(0, 4),
      HashOf(3, 1), HashOf(3, 2), HashOf(255, 9) }

QueryHashes == IndexUniverse \cup { HashOf(1, 1), HashOf(2, 7) }

\* The largest number of objects of the indexes made of IndexUniverse.
MaxObjects == 4

\* The pack offset listed for h in these indexes.
OffsetOf(h) == 100 * h[2] + h[1]

\* The 64-bit offset table of the indexes that have one.
Off64Table == << 70000, 80000 >>

\* Indexes whose 32-bit offsets all have their top bit clear.
SmallIndexes ==
    { IndexFile(MagicIdx, 2, [h \in S |-> U32(OffsetOf(h))], <<>>) :
        S \in {T \in SUBSET IndexUniverse : Cardinality(T) <= MaxObjects} }

\* Indexes in which the offset of one object, big, is entry j of the 64-bit
\* offset table.
LargeIndexes ==
    { IndexFile(MagicIdx, 2,
                [h \in x[1] |-> IF h = x[2] THEN <<32768, x[3]>> ELSE U32(OffsetOf(h))],
                Off64Table) :
        x \in { y \in (SUBSET IndexUniverse) \X IndexUniverse \X {0, 1} :
                  y[2] \in y[1] /\ Cardinality(y[1]) < MaxObjects } }

\* Pack magics and versions, index magics and versions.
BadMagic == <<80, 65, 67, 88>>
Versions == {1, 2, 3}

HeaderPacks ==
    { PackFile(m, v, <<BaseEntry(pkBlob, BlobAB)>>) : m \in {MagicPack, BadMagic}, v \in Versions }
    \cup { [bytes |-> MagicPack \o PutBigEndian(2, 4), streams |-> <<>>] }

HeaderIndexes ==
    { IndexFile(m, v, [h \in {ObjectId(pkBlob, BlobAB)} |-> U32(12)], <<>>) :
        m \in {MagicIdx, BadMagic}, v \in Versions }
    \cup { [IndexFile(MagicIdx, 2, <<>>, <<>>) EXCEPT !.size = idxHeaderSize - 4] }

\* A world is a pack file and an index file, with what they were made from:
\* kind says which of the sets below it is of, wf whether Git writes such
\* files, es is the entries of the pack.
Worlds ==
    { [kind |-> "header", wf |-> FALSE, es |-> <<>>, pack |-> p, idx |-> x] :
        p \in HeaderPacks, x \in HeaderIndexes }
    \cup { [kind |-> "index", wf |-> TRUE, es |-> <<>>,
            pack |-> PackFile(MagicPack, 2, <<>>), idx |-> x] :
             x \in SmallIndexes \cup LargeIndexes }
    \cup { [kind |-> "pack", wf |-> es \in WellFormedEntries, es |-> es,
            pack |-> PackFile(MagicPack, 2, es), idx |-> PackIndex(es)] :
             es \in WellFormedEntries \cup MalformedEntries }

(***************************************************************************)
(* The pack reader as a state machine: NewPackReader, then any calls of    *)
(* findObject, Objects and Extract.  extractAt calls itself for the base   *)
(* of a delta; each of its calls is a step, the calls that wait for their  *)
(* base are the frames of stack.                                           *)
(***************************************************************************)

\* The deepest the calls of extractAt nest before the stack of the process
\* is exhausted.
MaxDepth == 52

NoReader == [open |-> FALSE, version |-> 0, idxFanout |-> ZeroFanout,
             pack |-> NewSectionReader, idx |-> NewSectionReader]

\* The reader after pk.idx.ReadAt and after pk.pack.ReadAt of n bytes.
idxReadAt(rd, n) == [rd EXCEPT !.idx = sectionAfterReadAt(@, n)]
packReadAt(rd, n) == [rd EXCEPT !.pack = sectionAfterReadAt(@, n)]
NoCall == [h |-> ZeroHash, off |-> 0]
NoValue == [typ |-> 0, data |-> <<>>, err |-> ""]

\* What a call returns: the fields that the call does not return are zero.
Ret(op, h) ==
    [op |-> op, h |-> h, off |-> 0, err |-> "", obj |-> NilObject,
     panic |-> FALSE, hashes |-> <<>>]

\* The values of the variables of the pack reader while the delta encoder
\* runs, and those of the delta encoder while the pack reader runs.
PackIdle ==
    /\ world = [kind |-> "none", wf |-> FALSE, es |-> <<>>]
    /\ packf = [bytes |-> <<>>, streams |-> <<>>]
    /\ idxf = IndexFile(MagicIdx, 2, <<>>, <<>>)
    /\ pk = NoReader
    /\ pc = "idle"
    /\ call = NoCall
    /\ stack = <<>>
    /\ rv = NoValue
    /\ ret = Ret("none", ZeroHash)

DiffIdle ==
    /\ dpc = "idle"
    /\ data1 = Buf(0, <<>>)
    /\ data2 = <<>>
    /\ dsel = 0
    /\ dpatch = <<>>
    /\ di = 0
    /\ lastmatch = -1
    /\ dout = [err |-> "", data |-> <<>>]

Init ==
    /\ \E w \in Worlds :
          /\ world = [kind |-> w.kind, wf |-> w.wf, es |-> w.es]
          /\ packf = w.pack
          /\ idxf = w.idx
    /\ pk = NoReader
    /\ pc = "new"
    /\ call = NoCall
    /\ stack = <<>>
    /\ rv = NoValue
    /\ ret = Ret("none", ZeroHash)
    /\ DiffIdle

\* The hashes the calls are made with: those of the index and some others.
Hashes == QueryHashes \cup {idxf.hashes[k] : k \in 1..Len(idxf.hashes)}

\* pk, err := NewPackReader(pack, idx)
DoNewPackReader ==
    /\ pc = "new"
    /\ LET r == NewPackReader(packf.bytes, idxf)
       IN  /\ pk' = r.pk
           /\ ret' = [Ret("NewPackReader", ZeroHash) EXCEPT !.err = r.err]
           /\ pc' = IF r.err = "" THEN "ready" ELSE "failed"
    /\ UNCHANGED <<world, packf, idxf, call, stack, rv, dvars>>

\* The caller takes what the last call returned; it makes its next call
\* after that.
TakeResult ==
    /\ pc = "ready" /\ ret.op # "none"
    /\ ret' = Ret("none", ZeroHash)
    /\ UNCHANGED <<world, packf, idxf, pk, pc, call, stack, rv, dvars>>

\* off, err := pk.findObject(h)
DoFindObject ==
    /\ pc = "ready" /\ ret.op = "none"
    /\ \E h \in Hashes :
          LET r == findObject(pk, idxf, h)
          IN  ret' = [Ret("findObject", h) EXCEPT !.off = r.off, !.err = r.err]
    /\ pk' = idxReadAt(pk, HashSize)
    /\ UNCHANGED <<world, packf, idxf, pc, call, stack, rv, dvars>>

\* hashes, err := pk.Objects()
DoObjects ==
    /\ pc = "ready" /\ ret.op = "none"
    /\ LET r == Objects(pk, idxf)
       IN  ret' = [Ret("Objects", ZeroHash) EXCEPT !.hashes = r.hashes, !.err = r.err]
    /\ pk' = idxReadAt(pk, HashSize * Len(Objects(pk, idxf).hashes))
    /\ UNCHANGED <<world, packf, idxf, pc, call, stack, rv, dvars>>

\* pk.Extract(h), up to the call of extractAt in pk.extract(h); Extract
\* returns when findObject fails.
ExtractEnter ==
    /\ pc = "ready" /\ ret.op = "none"
    /\ \E h \in Hashes :
          LET r == findObject(pk, idxf, h)
          IN  IF r.err # ""
              THEN /\ ret' = [Ret("Extract", h) EXCEPT !.err = r.err]
                   /\ UNCHANGED <<pc, call, rv>>
              ELSE /\ call' = [h |-> h, off |-> r.off]
                   /\ pc' = "extractAt"
                   /\ rv' = NoValue
                   /\ ret' = Ret("none", ZeroHash)
    /\ stack' = <<>>
    /\ pk' = idxReadAt(pk, HashSize)
    /\ UNCHANGED <<world, packf, idxf, dvars>>

\* pk.extractAt(off) on an entry of type commit, tree, blob or tag.
ExtractAtBase ==
    /\ pc = "extractAt" /\ Len(stack) < MaxDepth
    /\ LET e == entryHeader(packf, call.off)
           r == readCompressed(packf, call.off + e.n, e.objsize)
       IN  /\ e.objtype \in {pkCommit, pkTree, pkBlob, pkTag}
           /\ rv' = [typ |-> e.objtype, data |-> SubSeq(r.buf, 1, r.n), err |-> r.err]
    /\ pc' = "return"
    /\ pk' = packReadAt(pk, 16)
    /\ UNCHANGED <<world, packf, idxf, call, stack, ret, dvars>>

\* pk.extractAt(off) on a REF_DELTA entry, up to the call of extractAt for
\* its base in pk.extract(parent).
ExtractAtRefDelta ==
    /\ pc = "extractAt" /\ Len(stack) < MaxDepth
    /\ LET e      == entryHeader(packf, call.off)
           parent == ReadAt(packf.bytes, HashSize, call.off + e.n)
           patch  == readCompressed(packf, call.off + e.n + 20, e.objsize).buf
           frame  == [off |-> call.off, objtype |-> e.objtype, patch |-> patch]
           r      == findObject(pk, idxf, parent.buf)
       IN  /\ e.objtype = pkRefDelta
           /\ IF parent.err # ""
              THEN /\ rv' = [typ |-> 0, data |-> <<>>, err |-> parent.err]
                   /\ pc' = "return"
                   /\ UNCHANGED <<call, stack>>
              ELSE IF r.err # ""
              THEN /\ rv' = [typ |-> 0, data |-> <<>>, err |-> r.err]
                   /\ pc' = "return"
                   /\ stack' = Append(stack, frame)
                   /\ UNCHANGED call
              ELSE /\ stack' = Append(stack, frame)
                   /\ call' = [call EXCEPT !.off = r.off]
                   /\ UNCHANGED <<pc, rv>>
    /\ pk' = idxReadAt(packReadAt(pk, 16 + HashSize), HashSize)
    /\ UNCHANGED <<world, packf, idxf, ret, dvars>>

\* pk.extractAt(off) on an OFS_DELTA entry, up to the call of extractAt for
\* its base.
ExtractAtOfsDelta ==
    /\ pc = "extractAt" /\ Len(stack) < MaxDepth
    /\ LET e     == entryHeader(packf, call.off)
           v     == readVaroffset(packf.bytes, call.off + e.n)
           patch == readCompressed(packf, call.off + e.n + v.n, e.objsize).buf
           frame == [off |-> call.off, objtype |-> e.objtype, patch |-> patch]
       IN  /\ e.objtype = pkOfsDelta
           /\ IF v.err # ""
              THEN /\ rv' = [typ |-> e.objtype, data |-> <<>>, err |-> v.err]
                   /\ pc' = "return"
                   /\ UNCHANGED <<call, stack>>
              ELSE /\ stack' = Append(stack, frame)
                   /\ call' = [call EXCEPT !.off = call.off - v.v]
                   /\ UNCHANGED <<pc, rv>>
    /\ pk' = packReadAt(pk, 16 + 16)
    /\ UNCHANGED <<world, packf, idxf, ret, dvars>>

\* pk.extractAt(off) on an entry of another type.
ExtractAtInvalid ==
    /\ pc = "extractAt" /\ Len(stack) < MaxDepth
    /\ entryHeader(packf, call.off).objtype
          \notin {pkCommit, pkTree, pkBlob, pkTag, pkRefDelta, pkOfsDelta}
    /\ rv' = [typ |-> 0, data |-> <<>>, err |-> "errInvalidPackEntryType"]
    /\ pc' = "return"
    /\ pk' = packReadAt(pk, 16)
    /\ UNCHANGED <<world, packf, idxf, call, stack, ret, dvars>>

\* An extractAt that returns the data of the base as it is, the delta
\* checked but not applied.
extractAtRestUnpatched(patch, base) ==
    LET r == Patch(Buf(0, base.data), patch)
    IN  IF base.err # "" THEN [typ |-> base.typ, data |-> patch, err |-> base.err]
        ELSE IF r.err # "" THEN [typ |-> base.typ, data |-> patch, err |-> r.err]
        ELSE [typ |-> base.typ, data |-> base.data, err |-> ""]

\* What pk.extractAt(off) returns on a delta entry with the delta patch,
\* once the call for its base has returned base: the type of the base, and
\* the delta applied to the data of the base.
extractAtRest(patch, base) ==
    LET r == Patch(Buf(0, base.data), patch)
    IN  IF base.err # "" THEN [typ |-> base.typ, data |-> patch, err |-> base.err]
        ELSE IF r.err # "" THEN [typ |-> base.typ, data |-> patch, err |-> r.err]
        ELSE [typ |-> base.typ, data |-> r.data, err |-> ""]

\* The rest of pk.extractAt(off) on a delta entry, once its base is there.
ExtractAtResume ==
    /\ pc = "return" /\ stack # <<>>
    /\ LET frame == stack[Len(stack)]
       IN  /\ rv' = extractAtRest(frame.patch, rv)
           /\ call' = [call EXCEPT !.off = frame.off]
    /\ stack' = SubSeq(stack, 1, Len(stack) - 1)
    /\ UNCHANGED <<world, packf, idxf, pk, pc, ret, dvars>>

\* The rest of pk.Extract(h), once pk.extract(h) has returned; the locals
\* of the call are gone with it.
ExtractReturn ==
    /\ pc = "return" /\ stack = <<>>
    /\ LET t == IF rv.typ = pkCommit THEN COMMIT
                ELSE IF rv.typ = pkTree THEN TREE ELSE BLOB
           r == readObject(t, rv.data)
       IN  IF rv.err # ""
           THEN /\ ret' = [Ret("Extract", call.h) EXCEPT !.err = rv.err]
                /\ pc' = "ready"
           ELSE IF rv.typ \in {pkCommit, pkTree, pkBlob} /\ ~r.panic
           THEN /\ ret' = [Ret("Extract", call.h) EXCEPT !.obj = r.obj, !.err = r.err]
                /\ pc' = "ready"
           ELSE /\ ret' = [Ret("Extract", call.h) EXCEPT !.panic = TRUE]
                /\ pc' = "panic"
    /\ call' = NoCall
    /\ rv' = NoValue
    /\ UNCHANGED <<world, packf, idxf, pk, stack, dvars>>

\* extractAt calls itself once more than the stack has room for: the
\* process ends.
StackOverflow ==
    /\ pc = "extractAt" /\ Len(stack) >= MaxDepth
    /\ pc' = "overflow"
    /\ UNCHANGED <<world, packf, idxf, pk, call, stack, rv, ret, dvars>>

Next ==
    \/ DoNewPackReader
    \/ TakeResult
    \/ DoFindObject
    \/ DoObjects
    \/ ExtractEnter
    \/ ExtractAtBase
    \/ ExtractAtRefDelta
    \/ ExtractAtOfsDelta
    \/ ExtractAtInvalid
    \/ ExtractAtResume
    \/ ExtractReturn
    \/ StackOverflow

Spec == Init /\ [][Next]_vars

(***************************************************************************)
(* Properties of the pack reader.                                          *)
(***************************************************************************)

\* A version 2 index as Git writes it: the hashes strictly increasing, the
\* fanout table holding for each byte the number of hashes that start with
\* that byte or a smaller one.
IndexWellFormed(f) ==
    /\ f.magic = MagicIdx
    /\ f.version = 2
    /\ f.size = IdxFullSize(f)
    /\ Len(f.off32) = Len(f.hashes)
    /\ \A k \in 1..(Len(f.hashes) - 1) : Compare(f.hashes[k], f.hashes[k + 1]) < 0
    /\ \A i \in 0..255 :
          f.fanout[i] = Cardinality({k \in 1..Len(f.hashes) : f.hashes[k][1] <= i})

Contains(f, h) == \E k \in 1..Len(f.hashes) : f.hashes[k] = h

\* The position of h in the tables of f, from 1.
PositionOf(f, h) == CHOOSE k \in 1..Len(f.hashes) : f.hashes[k] = h

\* The entry of h in the 32-bit offset table, its top bit and the rest.
Entry32(f, h) == f.off32[PositionOf(f, h)]
TopBit(e) == e[1] >= 32768
Low31(e) == (e[1] % 32768) * 65536 + e[2]

\* findObject(h) has returned, on a well-formed index.
Found(present) ==
    /\ pc = "ready"
    /\ ret.op = "findObject"
    /\ IndexWellFormed(idxf)
    /\ Contains(idxf, ret.h) = present

\* C3: on a well-formed version 2 index, findObject(h) of a hash h of the
\* index whose 32-bit entry has its top bit clear returns that entry, the
\* one at the position of h, and no error; so for the hashes that start
\* with byte 0.
FindObjectFinds ==
    (Found(TRUE) /\ ~TopBit(Entry32(idxf, ret.h)))
        => (ret.err = "" /\ ret.off = Low31(Entry32(idxf, ret.h)))

\* findObject has found a hash that starts with byte 0 and is the third of
\* the index or a later one.
FindObjectFindsWitness ==
    /\ Found(TRUE)
    /\ ~TopBit(Entry32(idxf, ret.h))
    /\ ret.h[1] = 0
    /\ PositionOf(idxf, ret.h) >= 3
    /\ ret.err = ""
    /\ ret.off = Low31(Entry32(idxf, ret.h))

\* C4: findObject(h) of a hash h that is not in the index returns
\* errNotFoundInPack, and so no offset of another object.
FindObjectRejectsAbsent ==
    Found(FALSE) => ret.err = "errNotFoundInPack"

\* C5: when the 32-bit entry of the hash found has its top bit set,
\* findObject returns the entry of the 64-bit offset table whose index is
\* the low 31 bits of the 32-bit entry.
FindObjectLargeOffset ==
    (Found(TRUE) /\ TopBit(Entry32(idxf, ret.h))
                 /\ Low31(Entry32(idxf, ret.h)) < Len(idxf.off64))
        => (ret.err = "" /\ ret.off = idxf.off64[Low31(Entry32(idxf, ret.h)) + 1])

\* NewPackReader has returned.
Opened == pc \in {"ready", "failed"} /\ ret.op = "NewPackReader"

\* C6: NewPackReader on a pack that does not start with "PACK" returns
\* errBadPackMagic and no reader, whatever the version in the pack.
BadPackMagicReported ==
    (Opened /\ Len(packf.bytes) >= 12 /\ SubSeq(packf.bytes, 1, 4) # MagicPack)
        => (ret.err = "errBadPackMagic" /\ ~pk.open)

\* C7: NewPackReader on an index whose version is not 2 returns an error
\* for the version of the index and no reader, the pack being one it
\* accepts and the index starting with its magic.
IdxVersionChecked ==
    (Opened /\ checkPackMagic(packf.bytes).err = "" /\ idxf.size >= idxHeaderSize
            /\ idxf.magic = MagicIdx /\ idxf.version # 2)
        => (ret.err = "errUnsupportedIdxVersion" /\ ~pk.open)

\* pk.extract(call.h) has returned rv.
Extracted == pc = "return" /\ stack = <<>>

\* The entries of the pack that the index lists under the hash h.
EntriesOf(h) == {k \in 1..Len(world.es) : EntryId(world.es, k) = h}

\* C8: extracting a delta entry whose chain of bases ends in an entry of
\* type T that is no delta returns the type T and the deltas of the chain
\* applied in order, from the data of that entry on.
ChainResolved ==
    \A k \in EntriesOf(call.h) :
        (Extracted /\ world.kind = "pack"
                   /\ world.es[k].type \in {pkOfsDelta, pkRefDelta}
                   /\ Resolved(world.es, k).ok)
            => /\ rv.err = ""
               /\ rv.typ = Resolved(world.es, k).type
               /\ rv.data = Resolved(world.es, k).data

\* A delta of a delta of a delta of a base has been extracted.
ChainResolvedWitness ==
    /\ Extracted
    /\ world.kind = "pack"
    /\ \E k \in EntriesOf(call.h) :
          /\ world.es[k].type = pkRefDelta
          /\ world.es[k].base # 0
          /\ world.es[world.es[k].base].type = pkOfsDelta
          /\ world.es[world.es[world.es[k].base].base].type = pkOfsDelta
          /\ Resolved(world.es, k).ok
          /\ rv.typ = pkBlob
          /\ rv.data = Resolved(world.es, k).data
          /\ rv.data # world.es[1].z.data

\* C9: in Extract(h) of a hash h of the index, the calls of extractAt for
\* the bases of a chain of deltas never nest deeper than the limit of 50: a
\* longer chain, so one that comes back to an entry it has been through,
\* ends in an error.
ExtractDepthLimited ==
    Contains(idxf, call.h) => (Len(stack) <= 50 /\ pc # "overflow")

\* C10: in Extract(h) of a hash h of the index, extractAt is not called
\* for the base of an OFS_DELTA entry at offset E with an offset that is
\* not both above 0 and below E.
OfsDeltaChecked ==
    (pc = "extractAt" /\ Contains(idxf, call.h)
        /\ stack # <<>> /\ stack[Len(stack)].objtype = pkOfsDelta)
        => (0 < call.off /\ call.off < stack[Len(stack)].off)

\* C2: Extract(h) of a hash h that Objects() lists, on a pack and an index
\* as Git writes them, returns no error and an object whose hash is h, as
\* recorded in the object and as computed again from what WriteTo writes.
ExtractRoundTrip ==
    (pc \in {"ready", "panic"} /\ ret.op = "Extract" /\ world.kind = "pack" /\ world.wf
        /\ \E k \in 1..Len(Objects(pk, idxf).hashes) : Objects(pk, idxf).hashes[k] = ret.h)
        => /\ ~ret.panic
           /\ ret.err = ""
           /\ ret.obj.Hash = ret.h
           /\ rehash(ret.obj) = ret.h

\* C18: once NewPackReader has succeeded, no call of findObject, Extract or
\* Objects changes the reader (its version, its fanout table, the read
\* offsets of its two sources) or the two files; what a call returns depends
\* on these and on its argument only, so it is the same each time.
ReaderUnchanged ==
    [][pk.open => (pk' = pk /\ packf' = packf /\ idxf' = idxf)]_vars

\* Extract has returned an object of a delta chain, and the reader is as
\* NewPackReader made it.
ReaderUnchangedWitness ==
    /\ pc = "ready" /\ ret.op = "Extract" /\ ret.err = ""
    /\ ret.obj.Data = <<120, 98, 99, 120, 98>>
    /\ pk = NewPackReader(packf.bytes, idxf).pk

\* C20: whatever the type tag of an entry header, Extract returns an object
\* of type BLOB, TREE or COMMIT or an error, and does not abort the caller,
\* also when the entry or the base of its delta chain has the type TAG.
ExtractReturnsOrFails ==
    ret.op = "Extract"
        => /\ ~ret.panic /\ pc # "panic"
           /\ (ret.err # "" \/ ret.obj.kind \in {"blob", "tree", "commit"})

\* What readCompressed returns for the delta of the OFS_DELTA or REF_DELTA
\* entry at offset off of the pack.
DeltaPayload(pack, off) ==
    LET e == entryHeader(pack, off)
        k == IF e.objtype = pkRefDelta THEN HashSize
             ELSE readVaroffset(pack.bytes, off + e.n).n
    IN  readCompressed(pack, off + e.n + k, e.objsize)

\* C21: when inflating the delta of an OFS_DELTA or REF_DELTA entry fails,
\* extractAt returns an error for the entry, whatever resolving the base and
\* applying the patch buffer give.
DeltaInflateChecked ==
    (pc = "return" /\ Contains(idxf, call.h)
        /\ entryHeader(packf, call.off).objtype \in {pkOfsDelta, pkRefDelta}
        /\ DeltaPayload(packf, call.off).err # "")
        => rv.err # ""

(***************************************************************************)
(* The delta encoder as a state machine: Diff, then Patch on its result.   *)
(***************************************************************************)

\* The longest run of bytes that occur in no chunk of the inputs.
MaxLiteral == 130

ChunkA == [k \in 1..W |-> k]
ChunkB == [k \in 1..W |-> W + k]
\* The bytes of ChunkA in reverse order: the same byte sum, other bytes.
ChunkR == [k \in 1..W |-> W + 1 - k]
Literal(n) == [k \in 1..n |-> 100 + (k % 50)]

\* First arguments of Diff: the chunks of the body start at multiples of W,
\* or one byte after.
DiffBodies ==
    { <<>>, ChunkA, ChunkA \o ChunkB, ChunkR \o ChunkA \o <<7>>,
      <<99>> \o ChunkA \o ChunkB, ChunkB \o ChunkA \o ChunkB }

\* Second arguments of Diff.
DiffTargets ==
    { <<>>, <<99>>, ChunkA, ChunkA \o <<99>>, <<98>> \o ChunkA \o <<99>>,
      ChunkA \o ChunkB \o <<99>>, ChunkB \o <<5>> \o ChunkA \o <<99, 98>>,
      ChunkA \o ChunkA \o <<9>>, Literal(MaxLiteral),
      ChunkB \o Literal(20) \o ChunkA \o <<3>>,
      <<7>> \o ChunkB \o ChunkB \o ChunkA \o ChunkB \o <<1, 2>> }

\* Inputs whose first argument is longer than 1<<16 bytes.
DiffFarBodies == { ChunkA, ChunkB \o ChunkA }
DiffFarTargets == { ChunkA \o <<99>>, <<98>> \o ChunkA \o ChunkB }

DiffInputs ==
    ({Buf(pad, b) : pad \in {0, W}, b \in DiffBodies} \X DiffTargets)
    \cup ({Buf(65536, b) : b \in DiffFarBodies} \X DiffFarTargets)

DiffInit ==
    /\ dpc = "start"
    /\ \E in \in DiffInputs : data1 = in[1] /\ data2 = in[2]
    /\ dsel \in {0, 1}
    /\ dpatch = <<>>
    /\ di = 0
    /\ lastmatch = -1
    /\ dout = [err |-> "", data |-> <<>>]
    /\ PackIdle

\* Diff, up to its loop: the two lengths are stored in the patch.
DiffEnter ==
    /\ dpc = "start"
    /\ dpatch' = PutUvarint(BufLen(data1)) \o PutUvarint(Len(data2))
    /\ dpc' = "loop"
    /\ UNCHANGED <<data1, data2, dsel, di, lastmatch, dout, pvars>>

\* A round with i < W: the hash takes data2[i] in.
DiffPrime ==
    /\ dpc = "loop" /\ di < Len(data2) /\ di < W
    /\ di' = di + 1
    /\ UNCHANGED <<dpc, data1, data2, dsel, dpatch, lastmatch, dout, pvars>>

\* A round that finds no chunk of data1 equal to data2[i-W:i].
DiffRoll ==
    /\ dpc = "loop" /\ di < Len(data2) /\ di >= W
    /\ ~diffMatches(dsel, data1, data2, di)
    /\ di' = di + 1
    /\ UNCHANGED <<dpc, data1, data2, dsel, dpatch, lastmatch, dout, pvars>>

\* A round that finds a match: the bytes before it are emitted inline, the
\* match as a reference; the loop goes on W bytes after the match, or ends.
DiffFound ==
    /\ dpc = "loop" /\ di < Len(data2) /\ di >= W
    /\ diffMatches(dsel, data1, data2, di)
    /\ LET m       == diffMatch(dsel, data1, data2, di, lastmatch)
           skipped == diffSkipped(data2, di, m.testj)
       IN  /\ dpatch' = appendRefData(
                            appendInlineData(dpatch, Slice(data2, lastmatch + 1, m.testi)),
                            U32(m.refi), U32(m.refj - m.refi))
           /\ lastmatch' = m.testj - 1
           /\ di' = IF di + skipped = Len(data2) THEN Len(data2) ELSE di + skipped + 1
    /\ UNCHANGED <<dpc, data1, data2, dsel, dout, pvars>>

\* The end of Diff: the bytes after the last match are emitted inline.
DiffReturn ==
    /\ dpc = "loop" /\ di >= Len(data2)
    /\ dpatch' = appendInlineData(dpatch, Slice(data2, lastmatch + 1, Len(data2)))
    /\ dpc' = "diffed"
    /\ UNCHANGED <<data1, data2, dsel, di, lastmatch, dout, pvars>>

\* out, err := Patch(data1, patch)
DoPatch ==
    /\ dpc = "diffed"
    /\ dout' = Patch(data1, dpatch)
    /\ dpc' = "patched"
    /\ UNCHANGED <<data1, data2, dsel, dpatch, di, lastmatch, pvars>>

DiffNext == DiffEnter \/ DiffPrime \/ DiffRoll \/ DiffFound \/ DiffReturn \/ DoPatch

SpecDiff == DiffInit /\ [][DiffNext]_vars

\* C1: for all byte strings data1 and data2, applying the delta returned by
\* Diff(data1, data2) to data1 succeeds and yields exactly data2.
DiffRoundTrip == dpc = "patched" => dout.err = "" /\ dout.data = data2

(***************************************************************************)
(* The object layer as a state machine: ParseLoose on the files of         *)
(* objects/, and the entry header that extractAt decodes.                  *)
(***************************************************************************)

\* "<type> <size>\x00<payload>"
Envelope(word, size, payload) == word \o <<32>> \o size \o <<0>> \o payload

\* The entries of the tree payloads: the canonical modes "100644", "100755"
\* and "40000", the names "a", "b" and "a b", two hashes.
CanonicalModes == {<<49, 48, 48, 54, 52, 52>>, <<49, 48, 48, 55, 53, 53>>,
                   <<52, 48, 48, 48, 48>>}
EntryNames == {<<97>>, <<98>>, <<97, 32, 98>>}
EntryHashes == {HashOf(1, 2), HashOf(32, 0)}

TreeEntry(mode, name, hash) == mode \o <<32>> \o name \o <<0>> \o hash

CanonicalEntries ==
    {TreeEntry(m, n, h) : m \in CanonicalModes, n \in EntryNames, h \in EntryHashes}

MaxTreeEntries == 2

RECURSIVE TreeSeqs(_)
TreeSeqs(n) ==
    IF n = 0 THEN {<<>>}
    ELSE TreeSeqs(n - 1) \cup {e \o p : e \in CanonicalEntries, p \in TreeSeqs(n - 1)}

CanonicalTrees == TreeSeqs(MaxTreeEntries) \cup {TreeFileDir}

\* Other tree payloads: a symbolic link, a name with a slash, a mode that is
\* not octal, a hash cut short, an entry with no space.
OtherTrees ==
    { TreeLink,
      TreeEntry(<<49, 48, 48, 54, 52, 52>>, <<97, 47, 98>>, HashOf(1, 2)),
      TreeEntry(<<49, 48, 57, 54, 52, 52>>, <<97>>, HashOf(1, 2)),
      SubSeq(TreeEntryExec, 1, Len(TreeEntryExec) - 1),
      <<49, 48, 48, 54, 52, 52, 97, 0>> \o HashOf(1, 2) }

\* The signatures of the commit payloads: "<identity> <time> <zone>" with
\* the identity "a <a@b>", and lines with fewer than two spaces.
IdentA == <<97, 32, 60, 97, 64, 98, 62>>
SigTimes == {<<49>>, <<120>>}
SigZones == {<<43, 48, 49, 48, 48>>, <<45, 48, 50, 51, 48>>,
             <<43, 48, 49, 48, 48, 48>>, <<43, 48, 120, 48, 48>>, <<48, 49, 48, 48>>}
Signature(ident, time, zone) == ident \o <<32>> \o time \o <<32>> \o zone
GoodSignature == Signature(IdentA, <<49>>, <<43, 48, 49, 48, 48>>)
AuthorLines ==
    {Signature(IdentA, t, z) : t \in SigTimes, z \in SigZones}
    \cup {<<97>>, <<97, 32, 43, 48, 49, 48, 48>>}
CommitterLines == {GoodSignature, Signature(IdentA, <<120>>, <<43, 48, 49, 48, 48>>)}

\* "encoding x\n" and "gpgsig y\n"
strEncoding == <<101, 110, 99, 111, 100, 105, 110, 103>>
strGpgsig == <<103, 112, 103, 115, 105, 103>>
ExtraHeaders == {<<>>, strEncoding \o <<32, 120, 10>>, strGpgsig \o <<32, 121, 10>>}

CommitPayload(parents, author, committer, extra, message) ==
    strTreeSp \o hexEncode(HashOf(1, 6)) \o <<10>>
    \o parentLines(parents, 1)
    \o strAuthor \o <<32>> \o author \o <<10>>
    \o strCommitter \o <<32>> \o committer \o <<10>>
    \o extra \o <<10>> \o message

\* The commits whose author has the zone "<sign>HHMM", sign being "+" (43)
\* or "-" (45).
ZoneSigns == {43, 45}
ZoneHours == {0, 1, 23}
ZoneMinutes == {0, 30, 59}
ZoneText(sign, hh, mm) ==
    <<sign, 48 + (hh \div 10), 48 + (hh % 10), 48 + (mm \div 10), 48 + (mm % 10)>>
ZoneCommit(sign, hh, mm) ==
    CommitPayload(<<>>, Signature(IdentA, <<49, 50>>, ZoneText(sign, hh, mm)),
                  GoodSignature, <<>>, <<109>>)

CommitPayloads ==
    {CommitPayload(ps, a, c, x, <<109>>) :
        ps \in {<<>>, <<HashOf(1, 7)>>}, a \in AuthorLines, c \in CommitterLines,
        x \in ExtraHeaders}
    \cup {ZoneCommit(sign, hh, mm) :
             sign \in ZoneSigns, hh \in ZoneHours, mm \in ZoneMinutes}
    \cup {CommitOne}

\* The Git modes with a recognized type (regular file 8, directory 4,
\* symbolic link 2, gitlink 14) in bits 15..12 and any permission bits, and
\* the trees of one entry "<octal mode> a\x00<hash>" with such a mode.
RecognizedTypes == {8, 4, 2, 14}
RecognizedModes == {t * 4096 + perm : t \in RecognizedTypes, perm \in 0..511}
ModeTree(m) == TreeEntry(Otoa(m), <<97>>, HashOf(1, 2))
ModeTrees == {ModeTree(m) : m \in RecognizedModes}

\* The decompressed bytes of loose objects as Git writes them.
LooseObjects ==
    {Envelope(strBlob, Itoa(Len(p)), p) : p \in {<<>>, BlobAB}}
    \cup {Envelope(strTree, Itoa(Len(p)), p) :
             p \in CanonicalTrees \cup OtherTrees \cup ModeTrees}
    \cup {Envelope(strCommit, Itoa(Len(p)), p) : p \in CommitPayloads \cup {BlobAB}}

\* Envelopes as Git never writes them: no space, no NUL, a NUL after the
\* first 32 bytes, other type words, size fields that are not decimal
\* numbers, sizes that are not the length of the payload, three bytes.
MalformedEnvelopes ==
    { strBlob \o <<50, 0>> \o BlobAB,
      strBlob \o <<32, 50>> \o BlobAB,
      Envelope(strBlob, [k \in 1..30 |-> IF k = 30 THEN 50 ELSE 48], BlobAB),
      Envelope(strTag, <<50>>, BlobAB),
      Envelope(strBlob \o <<115>>, <<50>>, BlobAB),
      Envelope(<<120, 108, 111, 98>>, <<50>>, BlobAB),
      Envelope(strBlob, <<>>, BlobAB),
      Envelope(strBlob, <<50, 120>>, BlobAB),
      Envelope(strBlob, <<43, 50>>, BlobAB),
      Envelope(strBlob, <<45, 50>>, BlobAB),
      Envelope(strBlob, <<51>>, BlobAB),
      Envelope(strBlob, <<49>>, BlobAB),
      <<98, 32, 0>> }

\* The zlib streams of the files: sound ones, ones that fail after their
\* last byte or after part of the bytes, one with no zlib header.
LooseStreams ==
    {Deflated(s) : s \in LooseObjects \cup MalformedEnvelopes}
    \cup {[Deflated(s) EXCEPT !.end = "corrupt"] :
             s \in {Envelope(strBlob, <<50>>, BlobAB),
                    Envelope(strBlob, <<50>>, <<97>>),
                    Envelope(strTree, Itoa(Len(TreeFileDir)), TreeFileDir)}}
    \cup {[Deflated(Envelope(strBlob, <<50>>, BlobAB)) EXCEPT !.hdr = FALSE]}

\* A file that holds one zlib stream.
LooseFile(z) == [bytes |-> <<120, 156>>, streams |-> (0 :> z)]

\* The headers of pack entries: a first byte with the type, four low bits
\* of the size and the continuation bit, then up to MaxHeaderBytes - 1 bytes
\* of seven bits, each but the last with the continuation bit.  The values
\* stay below 2^31.
MaxHeaderBytes == 4
HeaderFirst == {16 * t + low : t \in 0..7, low \in {0, 9, 15}}
HeaderGroups == {0, 1, 127}
HeaderLast(n) == IF n <= 4 THEN {0, 1, 127} ELSE {1, 7}

RECURSIVE HeaderTails(_, _)
HeaderTails(n, k) ==
    IF k > n THEN {<<>>}
    ELSE IF k = n THEN {<<b>> : b \in HeaderLast(n)}
    ELSE {<<128 + g>> \o t : g \in HeaderGroups, t \in HeaderTails(n, k + 1)}

EntryHeaders ==
    UNION {{<<IF n > 1 THEN 128 + f ELSE f>> \o t :
               f \in HeaderFirst, t \in HeaderTails(n, 2)} : n \in 1..MaxHeaderBytes}

\* A file that holds an entry with the header hdr and an empty zlib stream,
\* at offset 0.
EntryFile(hdr) ==
    [bytes |-> hdr \o <<120, 156>>, streams |-> (Len(hdr) :> Deflated(<<>>))]

\* The arguments of appendRefData: offsets with one, two, three and four
\* bytes, lengths below, at and above 1<<16, as uint32.
RefOffsets ==
    {U32(0), U32(1), U32(255), U32(256), U32(257), U32(65535), <<1, 0>>, <<1, 256>>,
     <<255, 65535>>, <<256, 0>>, <<258, 772>>, <<65534, 1>>}
RefLengths ==
    {U32(1), U32(16), U32(255), U32(256), U32(4097), U32(65535), <<1, 0>>, <<1, 1>>,
     <<2, 0>>, <<3, 513>>}

\* The files readVaroffset reads a distance from: a byte that is not part
\* of the distance, then 1 to MaxOffsetBytes bytes whose last one has bit 7
\* clear, followed by nothing or by one more byte; or bytes with bit 7 set up
\* to the end of the file; or nothing at all.
MaxOffsetBytes == 4
OffsetGroups(n, k) == IF n > 4 /\ k = 1 THEN {0, 1, 5} ELSE {0, 1, 127}

RECURSIVE OffsetBytes(_, _, _)
OffsetBytes(n, k, last) ==
    IF k > n THEN {<<>>}
    ELSE {<<IF k = n THEN last + g ELSE 128 + g>> \o t :
             g \in OffsetGroups(n, k), t \in OffsetBytes(n, k + 1, last)}

OffsetFiles ==
    LET ended == UNION {OffsetBytes(n, 1, 0) : n \in 1..MaxOffsetBytes}
        open  == UNION {OffsetBytes(n, 1, 128) : n \in 1..MaxOffsetBytes}
    IN  {<<200>> \o d \o t : d \in ended, t \in {<<>>, <<129>>}}
            \cup {<<200>> \o d : d \in open} \cup {<<200>>}

ObjInit ==
    /\ \/ \E z \in LooseStreams :
             /\ world = [kind |-> "loose", wf |-> z.data \in LooseObjects, es |-> <<>>]
             /\ packf = LooseFile(z)
             /\ pc = "loose"
       \/ \E hdr \in EntryHeaders :
             /\ world = [kind |-> "entry", wf |-> TRUE, es |-> <<>>]
             /\ packf = EntryFile(hdr)
             /\ pc = "entry"
       \/ \E f \in OffsetFiles :
             /\ world = [kind |-> "varoffset", wf |-> TRUE, es |-> <<>>]
             /\ packf = [bytes |-> f, streams |-> <<>>]
             /\ pc = "varoffset"
       \/ \E off \in RefOffsets, length \in RefLengths :
             /\ world = [kind |-> "ref", wf |-> TRUE, es |-> <<off, length>>]
             /\ packf = [bytes |-> <<>>, streams |-> <<>>]
             /\ pc = "ref"
    /\ idxf = IndexFile(MagicIdx, 2, <<>>, <<>>)
    /\ pk = NoReader
    /\ call = NoCall
    /\ stack = <<>>
    /\ rv = NoValue
    /\ ret = Ret("none", ZeroHash)
    /\ DiffIdle

\* ParseLoose(r), up to the call of readObject; ParseLoose returns when
\* readLoose fails.
ParseLooseEnter ==
    /\ pc = "loose"
    /\ LET l == readLoose(packf.streams[0])
       IN  /\ rv' = [typ |-> l.t, data |-> l.s, err |-> l.err]
           /\ IF l.panic
              THEN /\ ret' = [Ret("ParseLoose", ZeroHash) EXCEPT !.panic = TRUE]
                   /\ pc' = "panic"
              ELSE IF l.err # ""
              THEN /\ ret' = [Ret("ParseLoose", ZeroHash) EXCEPT !.err = l.err]
                   /\ pc' = "done"
              ELSE /\ pc' = "readObject"
                   /\ UNCHANGED ret
    /\ UNCHANGED <<world, packf, idxf, pk, call, stack, dvars>>

\* The rest of ParseLoose(r): return readObject(t, data).
ParseLooseReturn ==
    /\ pc = "readObject"
    /\ LET r == readObject(rv.typ, rv.data)
       IN  IF r.panic
           THEN /\ ret' = [Ret("ParseLoose", ZeroHash) EXCEPT !.panic = TRUE]
                /\ pc' = "panic"
           ELSE /\ ret' = [Ret("ParseLoose", ZeroHash) EXCEPT !.obj = r.obj, !.err = r.err]
                /\ pc' = "done"
    /\ UNCHANGED <<world, packf, idxf, pk, call, stack, rv, dvars>>

\* The first lines of extractAt(0): the type of the entry, and the offset
\* off + n at which it has the compressed data read.
ExtractAtHeader ==
    /\ pc = "entry"
    /\ LET e == entryHeader(packf, 0)
       IN  /\ rv' = [typ |-> e.objtype, data |-> <<>>, err |-> ""]
           /\ call' = [h |-> ZeroHash, off |-> 0 + e.n]
    /\ pc' = "header"
    /\ UNCHANGED <<world, packf, idxf, pk, stack, ret, dvars>>

\* patch = appendRefData(nil, off, length), the two arguments being
\* world.es.
DoAppendRefData ==
    /\ pc = "ref"
    /\ rv' = [typ |-> 0, data |-> appendRefData(<<>>, world.es[1], world.es[2]),
              err |-> ""]
    /\ pc' = "appended"
    /\ UNCHANGED <<world, packf, idxf, pk, call, stack, ret, dvars>>

\* v, n, err = readVaroffset(pack, 1): v is kept in call.off, n in rv.typ
\* and err in rv.err.
DoReadVaroffset ==
    /\ pc = "varoffset"
    /\ LET r == readVaroffset(packf.bytes, 1)
       IN  /\ rv' = [typ |-> r.n, data |-> <<>>, err |-> r.err]
           /\ call' = [h |-> ZeroHash, off |-> r.v]
    /\ pc' = "offset"
    /\ UNCHANGED <<world, packf, idxf, pk, stack, ret, dvars>>

ObjNext ==
    \/ ParseLooseEnter
    \/ DoReadVaroffset
    \/ DoAppendRefData
    \/ ExtractAtHeader
    \/ ParseLooseReturn

SpecObj == ObjInit /\ [][ObjNext]_vars

(***************************************************************************)
(* Properties of the object layer.                                         *)
(***************************************************************************)

\* ParseLoose has returned, with an object or an error.
Parsed == pc = "done" /\ ret.op = "ParseLoose"

\* C11: whenever Extract or ParseLoose returns a non-nil error, the Object
\* it returns is nil, also when the error is that of parseTree or
\* parseCommit in readObject.
FailureYieldsNoObject ==
    (ret.op \in {"Extract", "ParseLoose"} /\ ret.err # "") => ret.obj = NilObject

\* The commits with a header that parseCommit has no case for, after
\* well-formed author and committer lines.
UnknownHeaderCommits ==
    {CommitPayload(ps, GoodSignature, GoodSignature, x, <<109>>) :
        ps \in {<<>>, <<HashOf(1, 7)>>}, x \in ExtraHeaders \ {<<>>}}

\* C12: on a commit with a header line whose keyword is not tree, parent,
\* author or committer, parseCommit returns normally, and the commit has
\* the tree, the author, the committer and the message of the payload.
UnknownHeaderSkipped ==
    (pc \in {"done", "panic"} /\ rv.typ = COMMIT /\ rv.data \in UnknownHeaderCommits)
        => /\ pc = "done" /\ ret.err = ""
           /\ ret.obj.Tree = HashOf(1, 6)
           /\ ret.obj.Author = IdentA /\ ret.obj.Committer = IdentA
           /\ ret.obj.Message = <<109>>

\* The author lines that are not "<identity> <unix seconds> <+-HHMM>", and
\* the commits with one of them and no other fault.
WellFormedZones == {<<43, 48, 49, 48, 48>>, <<45, 48, 50, 51, 48>>}
MalformedAuthorLines ==
    AuthorLines \ {Signature(IdentA, <<49>>, z) : z \in WellFormedZones}
MalformedAuthorCommits ==
    {CommitPayload(ps, a, GoodSignature, <<>>, <<109>>) :
        ps \in {<<>>, <<HashOf(1, 7)>>}, a \in MalformedAuthorLines}

\* C13: parseCommit returns the malformed-commit error for every commit
\* whose author line is not of the form "<identity> <unix seconds> <+-HHMM>".
MalformedAuthorReported ==
    (pc \in {"done", "panic"} /\ rv.typ = COMMIT /\ rv.data \in MalformedAuthorCommits)
        => (pc = "done" /\ ret.err = "errMalformedCommitLine")

\* The tree of TestWriteTree: two files "a" and "b", 58 bytes.
TwoFileTree ==
    TreeEntry(<<49, 48, 48, 54, 52, 52>>, <<97>>, HashOf(1, 2))
    \o TreeEntry(<<49, 48, 48, 54, 52, 52>>, <<98>>, HashOf(32, 0))

\* C14: for every tree payload p whose entries have the modes 100644,
\* 100755 or 40000, parseTree(p) succeeds and WriteTo of the tree writes
\* "tree <len(p)>\x00" and then p, the bytes whose hash is the id.
TreeWriteRoundTrip ==
    (pc \in {"done", "panic"} /\ rv.typ = TREE /\ rv.data \in CanonicalTrees)
        => /\ pc = "done" /\ ret.err = "" /\ ret.obj.kind = "tree"
           /\ ret.obj.Entries = parseTree(rv.data).t
           /\ WriteTo(ret.obj) = Envelope(strTree, Itoa(Len(rv.data)), rv.data)
           /\ ret.obj.Hash = NewHash(WriteTo(ret.obj))

TreeWriteRoundTripWitness ==
    /\ Parsed /\ rv.typ = TREE /\ rv.data = TwoFileTree
    /\ Len(rv.data) = 58 /\ Len(ret.obj.Entries) = 2
    /\ Len(WriteTo(ret.obj)) = 66
    /\ SubSeq(WriteTo(ret.obj), 1, 8) = strTree \o <<32, 53, 56, 0>>

\* C15: ParseLoose returns an error, and does not abort the caller, for
\* every malformed envelope: no space or no NUL in the first 32 bytes, a
\* type word other than blob, tree or commit, a size field that is not a
\* decimal number, a size that is not the length of the payload.
MalformedEnvelopeRejected ==
    (pc \in {"done", "panic"} /\ ret.op = "ParseLoose"
        /\ packf.streams[0].hdr /\ packf.streams[0].data \in MalformedEnvelopes)
        => (pc = "done" /\ ret.err # "" /\ ret.obj = NilObject)

\* C16: when reading the decompressed stream fails after the zlib header
\* was accepted, readLoose and ParseLoose return an error, whatever the
\* bytes that were read before the failure.
CorruptStreamReported ==
    (pc \in {"readObject", "done", "panic"}
        /\ packf.streams[0].hdr /\ packf.streams[0].end = "corrupt")
        => (pc = "done" /\ rv.err # "" /\ ret.err # "")

\* The order of the entries of a tree: by name, the name of a directory
\* taken with a "/" after it.
BytesLess(a, b) ==
    \E k \in 1..(Len(b)) :
        /\ \A j \in 1..(k - 1) : j <= Len(a) /\ a[j] = b[j]
        /\ (k > Len(a) \/ a[k] < b[k])

EntryKey(e) == IF e.Mode.dir THEN e.Name \o <<47>> ELSE e.Name

TreeOrdered(entries) ==
    /\ \A k \in 1..(Len(entries) - 1) :
          BytesLess(EntryKey(entries[k]), EntryKey(entries[k + 1]))
    /\ \A k \in 1..Len(entries) : IndexByte(entries[k].Name, 47) < 0

\* C17: every Tree that parseTree returns without error, and so every tree
\* that ParseLoose returns, has its entries in strictly increasing order,
\* and no entry name with a "/".
TreeEntriesOrdered ==
    (Parsed /\ ret.err = "" /\ ret.obj.kind = "tree") => TreeOrdered(ret.obj.Entries)

\* The reference decoding of an entry header hdr: the type is bits 6..4 of
\* the first byte, the size its low four bits and seven bits of each
\* following byte, shifted by 4, 11, 18, ...
RefType(hdr) == (hdr[1] \div 16) % 8

RECURSIVE RefSizeFrom(_, _)
RefSizeFrom(hdr, k) ==
    IF k > Len(hdr) THEN 0
    ELSE (hdr[k] % 128) * (2 ^ (4 + 7 * (k - 2))) + RefSizeFrom(hdr, k + 1)

RefSize(hdr) == (hdr[1] % 16) + RefSizeFrom(hdr, 2)

\* The header of the entry file: all bytes but the two of the zlib stream.
HeaderOf(f) == SubSeq(f.bytes, 1, Len(f.bytes) - 2)

\* C19: extractAt takes the type from bits 6..4 of the first byte of the
\* header and the size from its low four bits and seven bits of each
\* continuation byte, least significant first, and has the compressed data
\* read from the byte after the last header byte.
EntryHeaderDecoded ==
    pc = "header"
        => /\ rv.typ = RefType(HeaderOf(packf))
           /\ entryHeader(packf, 0).objsize = RefSize(HeaderOf(packf))
           /\ call.off = Len(HeaderOf(packf))
           /\ call.off \in DOMAIN packf.streams

\* A header of four bytes: type 3, size 15 + 16 * (127 + 128 + 128 * 128 * 127).
EntryHeaderDecodedWitness ==
    /\ pc = "header" /\ HeaderOf(packf) = <<191, 255, 129, 127>>
    /\ rv.typ = pkBlob /\ call.off = 4
    /\ entryHeader(packf, 0).objsize = 15 + 16 * (127 + 128 + 128 * 128 * 127)

\* C22: for every signature "<identity> <unix> <sign>HHMM" parseAuthor
\* gives a time with the Unix seconds <unix> and the zone offset
\* sign * (HH * 60 + MM) minutes, and Commit.WriteTo writes the payload
\* again, so that the commit has the hash of its envelope.
ZoneRoundTrip ==
    \A sign \in ZoneSigns, hh \in ZoneHours, mm \in ZoneMinutes :
        (Parsed /\ rv.typ = COMMIT /\ rv.data = ZoneCommit(sign, hh, mm))
            => /\ ret.err = "" /\ ret.obj.Author = IdentA
               /\ ret.obj.AuthorTime.unix = 12
               /\ ret.obj.AuthorTime.offset
                     = (IF sign = 45 THEN -1 ELSE 1) * (hh * 60 + mm) * 60
               /\ WriteTo(ret.obj) = Envelope(strCommit, Itoa(Len(rv.data)), rv.data)
               /\ ret.obj.Hash = NewHash(Envelope(strCommit, Itoa(Len(rv.data)), rv.data))

\* The value of the octal digits before the first space of a tree payload.
RECURSIVE OctalValue(_, _)
OctalValue(p, k) ==
    IF p[k] = 32 THEN 0
    ELSE (p[k] - 48) * (8 ^ (IndexByte(p, 32) - k)) + OctalValue(p, k + 1)

\* C23: gitMode(osMode(m)) = m for every Git mode m with the type of a
\* regular file, a directory, a symbolic link or a gitlink and any
\* permission bits, so that the mode of a tree entry is written by
\* Tree.WriteTo as parseTree read it.
ModeRoundTrip ==
    (Parsed /\ rv.typ = TREE /\ rv.data \in ModeTrees)
        => /\ ret.err = "" /\ Len(ret.obj.Entries) = 1
           /\ ret.obj.Entries[1].Mode = osMode(OctalValue(rv.data, 1))
           /\ gitMode(ret.obj.Entries[1].Mode) = OctalValue(rv.data, 1)
           /\ WriteTo(ret.obj) = Envelope(strTree, Itoa(Len(rv.data)), rv.data)

\* The copies that a sequence of copy opcodes stands for under the rules of
\* the delta format: the bits 0..3 of an opcode select the bytes 0..3 of the
\* offset, its bits 4..6 the bytes of the length, a length of 0 stands for
\* 0x10000.  ok is false for a byte that is no copy opcode and for an
\* opcode whose bytes are cut short; the decoding stops there.
RECURSIVE RefCopies(_, _)
RefCopies(p, pos) ==
    IF pos >= Len(p) THEN <<>>
    ELSE LET op     == At(p, pos)
             selK   == {k \in 0..6 : Bit(op, k)}
             next   == pos + 1 + Cardinality(selK)
             ok     == op >= 128 /\ next <= Len(p)
             arg(k) == IF ok /\ k \in selK
                       THEN At(p, pos + 1 + Cardinality({m \in selK : m < k}))
                       ELSE 0
             len0   == arg(4) + 256 * arg(5) + 65536 * arg(6)
             copy   == [off |-> <<arg(3) * 256 + arg(2), arg(1) * 256 + arg(0)>>,
                        len |-> IF len0 = 0 THEN 65536 ELSE len0,
                        ok  |-> ok]
         IN  <<copy>> \o (IF ok THEN RefCopies(p, next) ELSE <<>>)

\* off + n for a uint32 off and n <= 1 << 16.
U32Add(off, n) ==
    <<(off[1] + ((off[2] + n) \div 65536)) % 65536, (off[2] + n) % 65536>>

RECURSIVE SumLen(_, _)
SumLen(cs, k) == IF k > Len(cs) THEN 0 ELSE cs[k].len + SumLen(cs, k + 1)

\* C24: the bytes that appendRefData(patch, off, length) appends decode to
\* copies that are contiguous, start at off, have lengths in 1..0x10000 and
\* total length bytes.
RefDataDecodes ==
    pc = "appended"
        => LET cs == RefCopies(rv.data, 0)
           IN  /\ cs # <<>>
               /\ \A k \in 1..Len(cs) : cs[k].ok /\ cs[k].len \in 1..65536
               /\ cs[1].off = world.es[1]
               /\ \A k \in 1..(Len(cs) - 1) : cs[k + 1].off = U32Add(cs[k].off, cs[k].len)
               /\ SumLen(cs, 1) = world.es[2][1] * 65536 + world.es[2][2]

\* The distance that the bytes of file from offset on stand for: with j the
\* first offset at or after offset whose byte has bit 7 clear, the sum of
\* (a_k + 1) << 7(j - k) over the bytes before j and of a_j, a_k being the
\* low seven bits of the byte at k.
RefDistanceEnds(file, offset) ==
    {j \in offset..(Min2(offset + 16, Len(file)) - 1) : At(file, j) < 128}

RECURSIVE RefDistanceSum(_, _, _)
RefDistanceSum(file, k, j) ==
    IF k = j THEN At(file, j)
    ELSE ((At(file, k) % 128) + 1) * (2 ^ (7 * (j - k))) + RefDistanceSum(file, k + 1, j)

\* C25: readVaroffset returns (a0+1)<<7n + ... + (a_{n-1}+1)<<7 + a_n and
\* the count n + 1 for the bytes 1|a0, ..., 1|a_{n-1}, 0|a_n, and an error
\* when none of the bytes read has bit 7 clear.
VaroffsetDecoded ==
    pc = "offset"
        => LET ends == RefDistanceEnds(packf.bytes, 1)
           IN  IF ends = {} THEN rv.err # ""
               ELSE /\ rv.err = ""
                    /\ rv.typ = (MinOf(ends) - 1) + 1
                    /\ call.off = RefDistanceSum(packf.bytes, 1, MinOf(ends))

VaroffsetDecodedWitness ==
    /\ pc = "offset"
    /\ packf.bytes = <<200, 255, 129, 127, 129>>
    /\ rv.err = ""
    /\ rv.typ = 3
    /\ call.off = 2097535

====
